---- MODULE Spec2Model ----
(***************************************************************************)
(* EmpathLens distress helper: text classifier, fusion detector,           *)
(* hysteresis state machine, intervention sequencer, session store and     *)
(* the request handlers that drive them (src/app).                         *)
(*                                                                         *)
(* Probabilities are fixed-point integers, Scale = 1.0.  Times are whole   *)
(* seconds.  A message is represented by the match counts the six          *)
(* pattern categories of the text classifier produce on it.                *)
(***************************************************************************)
EXTENDS Integers, Sequences, FiniteSets, TLC

VARIABLES
    now,                  \* datetime.utcnow(), seconds
    sessions,             \* SessionManager.sessions : chat_id -> SessionState
    state_history,        \* StateMachine.state_history : chat_id -> list
    grounding_step,       \* InterventionManager.grounding_step : chat_id -> int
    breathing_step,       \* InterventionManager.breathing_step : chat_id -> int
    confirmation_window,  \* StateMachine.CONFIRMATION_WINDOW
    call,                 \* the last call: what was detected and decided
                          \* (args: its arguments or the outcome of the
                          \* coaching generator, result: what it returned)
    response,             \* the last call: the reply sent
    served                \* number of calls made so far

vars == <<now, sessions, state_history, grounding_step, breathing_step,
          confirmation_window, call, response, served>>

----------------------------------------------------------------------------
(* Bounds *)

MaxRequests == 2      \* requests served in one behaviour of Spec
MaxCalls == 3         \* determine_state calls in one behaviour of SpecSM
MaxW == 6             \* largest confirmation window configured
MaxMatch == 2         \* largest match count of one pattern category
MaxStoreCalls == 2    \* session-store calls in one behaviour of SpecStore
MaxSeqCalls == 8      \* get_intervention calls in one behaviour of SpecSeq
MaxInflight == 2      \* requests started in one behaviour of SpecAsync

ChatIds == {"c1", "c2"}

\* instants at which requests arrive: their differences hit the escalation
\* threshold (120 s, 121 s) and the session TTL (1800 s, 1801 s)
TimePoints == {0, 120, 121, 1921}

\* instants of the calls on the session store: 91 adds the differences that
\* hit the intervention cooldown (29 s, 30 s)
StoreTimePoints == TimePoints \cup {91}

----------------------------------------------------------------------------
(* Enumerations, src/app/models.py *)

CALM == "calm"
RISING == "rising"
PANIC == "panic"
OVERWHELMED == "overwhelmed"
RECOVERY == "recovery"
CRISIS_RISK == "crisis_risk"

DistressState == {CALM, RISING, PANIC, OVERWHELMED, RECOVERY, CRISIS_RISK}

PACED_BREATHING == "paced_breathing"
FOUR_SEVEN_EIGHT == "four_seven_eight"
BOX_BREATHING == "box_breathing"
GROUNDING_54321 == "grounding_54321"
REINFORCEMENT == "reinforcement"
ESCALATION == "escalation"
CHECK_IN == "check_in"

InterventionType == {PACED_BREATHING, FOUR_SEVEN_EIGHT, BOX_BREATHING,
                     GROUNDING_54321, REINFORCEMENT, ESCALATION, CHECK_IN}

BETTER == "better"
SAME == "same"
WORSE == "worse"

CheckInResponse == {BETTER, SAME, WORSE}

None == "None"
NoTime == -1      \* last_intervention_time is None
NoProb == -1      \* the distress_prob argument is None

----------------------------------------------------------------------------
(* Fixed-point arithmetic *)

Scale == 10000

Min(a, b) == IF a <= b THEN a ELSE b
Max(a, b) == IF a >= b THEN a ELSE b

\* probabilities 0.00, 0.05, ..., 1.00 and 0.225
ProbGrid == {i * 500 : i \in 0..20} \cup {2250}

----------------------------------------------------------------------------
(* Settings, src/app/config.py *)

text_weight == 6             \* tenths
audio_weight == 4            \* tenths
session_timeout_minutes == 30
intervention_cooldown_seconds == 30
escalation_timeout_seconds == 120

----------------------------------------------------------------------------
(* TextDistressDetector and DistressDetector, src/app/core/detector.py *)

MatchCounts == [crisis : 0..MaxMatch, panic : 0..MaxMatch,
                overwhelmed : 0..MaxMatch, rising : 0..MaxMatch,
                recovery : 0..MaxMatch, stop : 0..MaxMatch]

Msg(cr, pa, ov, ri, re, st) ==
    [crisis |-> cr, panic |-> pa, overwhelmed |-> ov, rising |-> ri,
     recovery |-> re, stop |-> st]

\* variant: the crisis rule is tested before the recovery rule
CalculateProbability_CrisisFirst(m) ==
    IF m.crisis > 0
    THEN Scale
    ELSE IF m.recovery > 0
    THEN Max(0, 2000 - m.recovery * 1000)
    ELSE LET score == m.panic * 8500 + m.overwhelmed * 8000 + m.rising * 4000
         IN  Min(9500, score \div 2)

\* TextDistressDetector._calculate_probability
CalculateProbability(m) ==
    IF m.recovery > 0
    THEN Max(0, 2000 - m.recovery * 1000)
    ELSE IF m.crisis > 0
    THEN Scale
    ELSE LET score == m.panic * 8500 + m.overwhelmed * 8000 + m.rising * 4000
         IN  Min(9500, score \div 2)

\* TextDistressDetector.detect
TextDetect(m) ==
    [distress_prob |-> CalculateProbability(m),
     is_crisis |-> m.crisis > 0,
     is_stop |-> m.stop > 0]

\* variant: the text probability is passed on without the fusion weights
Detect_TextOnly(m) ==
    LET t == TextDetect(m)
    IN  [distress_prob |-> Max(0, Min(Scale, t.distress_prob)),
         text_prob |-> t.distress_prob,
         is_crisis |-> t.is_crisis,
         is_stop |-> t.is_stop]

\* DistressDetector.detect with audio_features = None
Detect(m) ==
    LET t == TextDetect(m)
        audio_prob == 0
        final_prob == (text_weight * t.distress_prob
                        + audio_weight * audio_prob) \div 10
    IN  [distress_prob |-> Max(0, Min(Scale, final_prob)),
         text_prob |-> t.distress_prob,
         is_crisis |-> t.is_crisis,
         is_stop |-> t.is_stop]

\* variant: the weighted sum is returned as it is
DetectWith_NoClamp(m, tw, aw, audio_prob) ==
    LET t == TextDetect(m)
        final_prob == (tw * t.distress_prob + aw * audio_prob) \div 10
    IN  [distress_prob |-> final_prob,
         text_prob |-> t.distress_prob,
         is_crisis |-> t.is_crisis,
         is_stop |-> t.is_stop]

\* DistressDetector(text_weight = tw, audio_weight = aw).detect, the audio
\* detector answering audio_prob; weights in tenths
DetectWith(m, tw, aw, audio_prob) ==
    LET t == TextDetect(m)
        final_prob == (tw * t.distress_prob + aw * audio_prob) \div 10
    IN  [distress_prob |-> Max(0, Min(Scale, final_prob)),
         text_prob |-> t.distress_prob,
         is_crisis |-> t.is_crisis,
         is_stop |-> t.is_stop]

----------------------------------------------------------------------------
(* StateMachine, src/app/core/state_machine.py *)

\* variant: the three threshold bands are tested before the RECOVERY rule
MapProbToState_BandsFirst(prob, current_state) ==
    IF prob >= 6000 THEN PANIC
    ELSE IF 5000 <= prob /\ prob < 6000 THEN OVERWHELMED
    ELSE IF 2000 <= prob /\ prob < 5000 THEN RISING
    ELSE IF current_state = RECOVERY /\ prob < 2500 THEN CALM
    ELSE IF current_state \in {PANIC, OVERWHELMED, RISING}
            /\ 1000 <= prob /\ prob < 3500 THEN RECOVERY
    ELSE CALM

\* StateMachine._map_prob_to_state
MapProbToState(prob, current_state) ==
    IF current_state = RECOVERY /\ prob < 2500 THEN CALM
    ELSE IF prob >= 6000 THEN PANIC
    ELSE IF 5000 <= prob /\ prob < 6000 THEN OVERWHELMED
    ELSE IF 2000 <= prob /\ prob < 5000 THEN RISING
    ELSE IF current_state \in {PANIC, OVERWHELMED, RISING}
            /\ 1000 <= prob /\ prob < 3500 THEN RECOVERY
    ELSE CALM

\* the list kept under chat_id, [] when the key is absent
HistoryOf(hist, chat_id) ==
    IF chat_id \in DOMAIN hist THEN hist[chat_id] ELSE <<>>

\* Python's h[-n:]
LastN(h, n) ==
    IF n = 0 \/ n >= Len(h) THEN h
    ELSE SubSeq(h, Len(h) - n + 1, Len(h))

\* variant: a full history keeps its oldest five entries
AppendHistory_KeepOldest(h, proposed) ==
    IF Len(h) >= 5 THEN SubSeq(h, 1, 5) ELSE Append(h, proposed)

\* state_history[chat_id].append(proposed); keep the last 5
AppendHistory(h, proposed) == LastN(Append(h, proposed), 5)

\* variant: only the newest history entry is compared
Confirmed_LastOnly(h, w, proposed) == h[Len(h)] = proposed

\* the hysteresis test of determine_state
Confirmed(h, w, proposed) ==
    LET recent == LastN(h, w)
    IN  Len(recent) >= w /\ \A i \in 1..Len(recent) : recent[i] = proposed

\* variant: the crisis return always reports a change
CrisisReturn_AlwaysChanged(session, chat_id, hist, w, distress_prob) ==
    [state |-> CRISIS_RISK,
     state_changed |-> TRUE,
     proposed |-> None,
     state_history |-> hist]

\* determine_state, line 46: the crisis return
CrisisReturn(session, chat_id, hist, w, distress_prob) ==
    [state |-> CRISIS_RISK,
     state_changed |-> session.current_state # CRISIS_RISK,
     proposed |-> None,
     state_history |-> hist]

\* determine_state, lines 51-73: threshold mapping and confirmation window
HysteresisReturn(session, chat_id, hist, w, distress_prob) ==
    LET current_state == session.current_state
        proposed_state == MapProbToState(distress_prob, current_state)
        h == AppendHistory(HistoryOf(hist, chat_id), proposed_state)
        confirmed_state == IF Confirmed(h, w, proposed_state)
                           THEN proposed_state
                           ELSE current_state
    IN  [state |-> confirmed_state,
         state_changed |-> confirmed_state # current_state,
         proposed |-> proposed_state,
         state_history |->
             [c \in DOMAIN hist \cup {chat_id} |->
                 IF c = chat_id THEN h ELSE hist[c]]]

\* variant: the return for a stopped session reports whether CALM is a change
StoppedReturn_ReportsChange(session, chat_id, hist, w, distress_prob) ==
    [state |-> CALM,
     state_changed |-> session.current_state # CALM,
     proposed |-> None,
     state_history |-> hist]

\* variant: the stopped flag is not honoured
StoppedReturn_Ignored(session, chat_id, hist, w, distress_prob) ==
    HysteresisReturn(session, chat_id, hist, w, distress_prob)

\* determine_state, line 49: the return for a stopped session
StoppedReturn(session, chat_id, hist, w, distress_prob) ==
    [state |-> CALM,
     state_changed |-> FALSE,
     proposed |-> None,
     state_history |-> hist]

\* StateMachine.determine_state: the returned pair, the proposed state and
\* the history it leaves
DetermineState(session, chat_id, hist, w, distress_prob, is_crisis) ==
    IF is_crisis
    THEN CrisisReturn(session, chat_id, hist, w, distress_prob)
    ELSE IF session.stopped
    THEN StoppedReturn(session, chat_id, hist, w, distress_prob)
    ELSE HysteresisReturn(session, chat_id, hist, w, distress_prob)

\* variant: escalation is decided by the session duration alone
ShouldEscalate_NoCrisis(session, t) ==
    /\ session.current_state \in {PANIC, OVERWHELMED}
    /\ t - session.session_start > 120

\* variant: escalation as soon as the threshold is reached
ShouldEscalate_AtThreshold(session, t) ==
    \/ session.current_state = CRISIS_RISK
    \/ /\ session.current_state \in {PANIC, OVERWHELMED}
       /\ t - session.session_start >= 120

\* StateMachine.should_escalate at time t
ShouldEscalate(session, t) ==
    \/ session.current_state = CRISIS_RISK
    \/ /\ session.current_state \in {PANIC, OVERWHELMED}
       /\ t - session.session_start > 120

----------------------------------------------------------------------------
(* SessionManager, src/app/core/session_manager.py *)

\* SessionState(chat_id=chat_id) created at time t
NewSession(t) ==
    [current_state |-> CALM,
     distress_prob |-> 0,
     last_intervention |-> None,
     last_intervention_time |-> NoTime,
     intervention_count |-> 0,
     session_start |-> t,
     last_update |-> t,
     escalation_offered |-> FALSE,
     stopped |-> FALSE]

\* variant: a session whose last_update equals the cutoff is swept too
CleanupOldSessions_Inclusive(s, t) ==
    LET cutoff == t - session_timeout_minutes * 60
        expired == {c \in DOMAIN s : s[c].last_update <= cutoff}
    IN  [c \in DOMAIN s \ expired |-> s[c]]

\* SessionManager._cleanup_old_sessions
CleanupOldSessions(s, t) ==
    LET cutoff == t - session_timeout_minutes * 60
        expired == {c \in DOMAIN s : s[c].last_update < cutoff}
    IN  [c \in DOMAIN s \ expired |-> s[c]]

\* variant: the lookup comes before the sweep, so that an expired session of
\* chat_id itself is refreshed instead of replaced
GetOrCreateSession_LookupFirst(s, chat_id, t) ==
    LET old == IF chat_id \in DOMAIN s THEN s[chat_id] ELSE NewSession(t)
        found == [c \in DOMAIN s \cup {chat_id} |->
                    IF c = chat_id THEN [old EXCEPT !.last_update = t] ELSE s[c]]
    IN  CleanupOldSessions(found, t)

\* variant: an existing session is returned without its last_update being
\* refreshed
GetOrCreateSession_NoRefresh(s, chat_id, t) ==
    LET kept == CleanupOldSessions(s, t)
    IN  [c \in DOMAIN kept \cup {chat_id} |->
            IF c \in DOMAIN kept THEN kept[c] ELSE NewSession(t)]

\* SessionManager.get_or_create_session: the store it leaves
GetOrCreateSession(s, chat_id, t) ==
    LET kept == CleanupOldSessions(s, t)
        old == IF chat_id \in DOMAIN kept THEN kept[chat_id] ELSE NewSession(t)
    IN  [c \in DOMAIN kept \cup {chat_id} |->
            IF c = chat_id THEN [old EXCEPT !.last_update = t] ELSE kept[c]]

\* variant: the flag argument is assigned as given
SetFlag_Assign(old, arg) == arg

\* the flag assignment of update_session: only True is ever written
SetFlag(old, arg) == IF arg THEN TRUE ELSE old

\* variant: state and distress_prob are assigned whether supplied or not
UpdateSession_Overwrite(s, chat_id, t, state, distress_prob, intervention, escalation_offered, stopped) ==
    LET got == GetOrCreateSession(s, chat_id, t)
        s0 == got[chat_id]
        s2 == [s0 EXCEPT !.current_state = state, !.distress_prob = distress_prob]
        s3 == IF intervention # None
              THEN [s2 EXCEPT !.last_intervention = intervention,
                              !.last_intervention_time = t,
                              !.intervention_count = @ + 1]
              ELSE s2
        s4 == [s3 EXCEPT !.escalation_offered = SetFlag(@, escalation_offered),
                         !.stopped = SetFlag(@, stopped)]
    IN  [got EXCEPT ![chat_id] = [s4 EXCEPT !.last_update = t]]

\* variant: every update_session call counts as an intervention
UpdateSession_CountAlways(s, chat_id, t, state, distress_prob, intervention, escalation_offered, stopped) ==
    LET got == GetOrCreateSession(s, chat_id, t)
        s0 == got[chat_id]
        s1 == IF state # None THEN [s0 EXCEPT !.current_state = state] ELSE s0
        s2 == IF distress_prob # NoProb
              THEN [s1 EXCEPT !.distress_prob = distress_prob] ELSE s1
        s3 == IF intervention # None
              THEN [s2 EXCEPT !.last_intervention = intervention,
                              !.last_intervention_time = t]
              ELSE s2
        s4 == [s3 EXCEPT !.escalation_offered = SetFlag(@, escalation_offered),
                         !.stopped = SetFlag(@, stopped),
                         !.intervention_count = @ + 1]
    IN  [got EXCEPT ![chat_id] = [s4 EXCEPT !.last_update = t]]

\* SessionManager.update_session: the store it leaves
UpdateSession(s, chat_id, t, state, distress_prob, intervention, escalation_offered, stopped) ==
    LET got == GetOrCreateSession(s, chat_id, t)
        s0 == got[chat_id]
        s1 == IF state # None THEN [s0 EXCEPT !.current_state = state] ELSE s0
        s2 == IF distress_prob # NoProb
              THEN [s1 EXCEPT !.distress_prob = distress_prob] ELSE s1
        s3 == IF intervention # None
              THEN [s2 EXCEPT !.last_intervention = intervention,
                              !.last_intervention_time = t,
                              !.intervention_count = @ + 1]
              ELSE s2
        s4 == [s3 EXCEPT !.escalation_offered = SetFlag(@, escalation_offered),
                         !.stopped = SetFlag(@, stopped)]
    IN  [got EXCEPT ![chat_id] = [s4 EXCEPT !.last_update = t]]

\* SessionManager.get_session_duration
GetSessionDuration(s, chat_id, t) == t - s[chat_id].session_start

\* variant: the cooldown must be exceeded, not just reached
CanIntervene_Strict(s, chat_id, t) ==
    \/ s[chat_id].last_intervention_time = NoTime
    \/ t - s[chat_id].last_intervention_time > intervention_cooldown_seconds

\* SessionManager.can_intervene, evaluated on the store left by get_or_create
CanIntervene(s, chat_id, t) ==
    \/ s[chat_id].last_intervention_time = NoTime
    \/ t - s[chat_id].last_intervention_time >= intervention_cooldown_seconds

\* variant: a stopped session is checked in on like any other
ShouldCheckIn_IgnoresStop(s, chat_id, t) ==
    /\ s[chat_id].current_state # CRISIS_RISK
    /\ s[chat_id].last_intervention_time # NoTime
    /\ t - s[chat_id].last_intervention_time >= intervention_cooldown_seconds

\* SessionManager.should_check_in, evaluated on the store left by get_or_create
ShouldCheckIn(s, chat_id, t) ==
    /\ ~(s[chat_id].stopped \/ s[chat_id].current_state = CRISIS_RISK)
    /\ s[chat_id].last_intervention_time # NoTime
    /\ t - s[chat_id].last_intervention_time >= intervention_cooldown_seconds

\* SessionManager.end_session
EndSession(s, chat_id) == [c \in DOMAIN s \ {chat_id} |-> s[c]]

----------------------------------------------------------------------------
(* InterventionManager, src/app/core/interventions.py *)

\* InterventionManager.INTERVENTIONS
INTERVENTIONS ==
    [s \in {RISING, PANIC, OVERWHELMED, RECOVERY, CRISIS_RISK} |->
        CASE s = RISING ->
                [type |-> PACED_BREATHING, duration |-> 30,
                 prompt |-> "Let's slow your breath. Breathe in for four, out for four."]
          [] s = PANIC ->
                [type |-> FOUR_SEVEN_EIGHT, duration |-> 60,
                 prompt |-> "Your body needs slower breaths. In for four, hold seven, out for eight."]
          [] s = OVERWHELMED ->
                [type |-> GROUNDING_54321, duration |-> 75,
                 prompt |-> "Let's bring you back to now. Name five things you can see."]
          [] s = RECOVERY ->
                [type |-> REINFORCEMENT, duration |-> 0,
                 prompt |-> "Your body is settling. Take two slow breaths."]
          [] s = CRISIS_RISK ->
                [type |-> ESCALATION, duration |-> 0,
                 prompt |-> "I hear you're struggling. Would you like me to contact your support person?"]]

GROUNDING_SEQUENCE ==
    <<"Name five things you can see.",
      "Name four things you can touch.",
      "Name three things you can hear.",
      "Name two things you can smell.",
      "Name one thing you can taste.",
      "You're here. You're present. Take a slow breath.">>

BREATHING_CUES ==
    [k \in {PACED_BREATHING, FOUR_SEVEN_EIGHT, BOX_BREATHING} |->
        CASE k = PACED_BREATHING ->
                <<"Breathe in for four, out for four.",
                  "Keep that rhythm. In for four, out for four.",
                  "You're doing well. Two more breaths.">>
          [] k = FOUR_SEVEN_EIGHT ->
                <<"In for four, hold for seven, out for eight.",
                  "Again. In four, hold seven, out eight.",
                  "One more cycle. In four, hold seven, out eight.">>
          [] k = BOX_BREATHING ->
                <<"In for four, hold four, out four, hold four.",
                  "Continue the box. In, hold, out, hold.",
                  "You've got this. One more round.">>]

\* the cursor kept under chat_id, 0 when the key is absent
StepOf(steps, chat_id) ==
    IF chat_id \in DOMAIN steps THEN steps[chat_id] ELSE 0

\* variant: the cursor always advances, the closing prompt does not reset it
SetStep_Advance(steps, chat_id, v) ==
    [c \in DOMAIN steps \cup {chat_id} |->
        IF c = chat_id THEN StepOf(steps, chat_id) + 1 ELSE steps[c]]

SetStep(steps, chat_id, v) ==
    [c \in DOMAIN steps \cup {chat_id} |-> IF c = chat_id THEN v ELSE steps[c]]

\* variant: each step reports the duration of the whole script
StepDuration_Whole(duration, n) == duration

\* get_intervention, lines 111 and 127: duration // len(script)
StepDuration(duration, n) == duration \div n

\* variant: a single-step intervention moves the breathing cursor
SingleStep_Advance(iv, chat_id, g, b) ==
    [type |-> iv.type, duration |-> iv.duration, prompt |-> iv.prompt,
     grounding_step |-> g,
     breathing_step |-> [c \in DOMAIN b \cup {chat_id} |->
                           IF c = chat_id THEN StepOf(b, chat_id) + 1 ELSE b[c]]]

\* get_intervention, line 130: the return for a single-step intervention
SingleStep(iv, chat_id, g, b) ==
    [type |-> iv.type, duration |-> iv.duration, prompt |-> iv.prompt,
     grounding_step |-> g, breathing_step |-> b]

\* InterventionManager.get_intervention: the returned triple and the cursors
\* it leaves
GetIntervention(state, chat_id, g, b) ==
    IF state = CALM
    THEN [type |-> CHECK_IN, duration |-> 0,
          prompt |-> "How are you feeling right now?",
          grounding_step |-> g, breathing_step |-> b]
    ELSE IF state \notin DOMAIN INTERVENTIONS
    THEN [type |-> CHECK_IN, duration |-> 0, prompt |-> "How are you doing?",
          grounding_step |-> g, breathing_step |-> b]
    ELSE LET iv == INTERVENTIONS[state] IN
         IF iv.type = GROUNDING_54321
         THEN LET step_idx == StepOf(g, chat_id)
                  n == Len(GROUNDING_SEQUENCE)
              IN  IF step_idx < n
                  THEN [type |-> iv.type, duration |-> StepDuration(iv.duration, n),
                        prompt |-> GROUNDING_SEQUENCE[step_idx + 1],
                        grounding_step |-> SetStep(g, chat_id, step_idx + 1),
                        breathing_step |-> b]
                  ELSE [type |-> iv.type, duration |-> StepDuration(iv.duration, n),
                        prompt |-> "You're here. You're present. Take a slow breath.",
                        grounding_step |-> SetStep(g, chat_id, 0),
                        breathing_step |-> b]
         ELSE IF iv.type \in DOMAIN BREATHING_CUES
         THEN LET step_idx == StepOf(b, chat_id)
                  cues == BREATHING_CUES[iv.type]
              IN  IF step_idx < Len(cues)
                  THEN [type |-> iv.type, duration |-> StepDuration(iv.duration, Len(cues)),
                        prompt |-> cues[step_idx + 1],
                        grounding_step |-> g,
                        breathing_step |-> SetStep(b, chat_id, step_idx + 1)]
                  ELSE [type |-> iv.type, duration |-> StepDuration(iv.duration, Len(cues)),
                        prompt |-> "You're doing well. One more breath.",
                        grounding_step |-> g,
                        breathing_step |-> SetStep(b, chat_id, 0)]
         ELSE SingleStep(iv, chat_id, g, b)

\* InterventionManager.get_escalation_prompt
GetEscalationPrompt ==
    "I hear you're struggling. Would you like me to contact your support person?"

\* InterventionManager.reset_steps
ResetSteps(steps, chat_id) == [c \in DOMAIN steps \ {chat_id} |-> steps[c]]

----------------------------------------------------------------------------
(* Collaborators: GeminiClient (src/app/services/gemini_client.py) and     *)
(* SafetyFilter (src/app/core/safety.py).  The generated text is an input: *)
(* a safe sentence, a sentence with a medical term, or a failure.          *)

LlmOutcomes == {"ok", "medical", "failed"}

GENERATED == "<generated sentence>"
GENERATED_MEDICAL == "<generated sentence with a medical term>"

\* GeminiClient.FALLBACK_RESPONSES
FALLBACK_RESPONSES ==
    [s \in DistressState |->
        CASE s = RISING -> "Let's slow your breath. In for four, out for four."
          [] s = PANIC -> "In for four, hold seven, out for eight."
          [] s = OVERWHELMED -> "Name five things you can see right now."
          [] s = RECOVERY -> "Your body is settling. Take two slow breaths."
          [] s = CRISIS_RISK -> "I hear you're struggling. Can I contact your support person?"
          [] s = CALM -> "How are you feeling right now?"]

\* GeminiClient.generate_response
GenerateResponse(current_state, outcome) ==
    CASE outcome = "ok" -> GENERATED
      [] outcome = "medical" -> GENERATED_MEDICAL
      [] outcome = "failed" -> FALLBACK_RESPONSES[current_state]

\* SafetyFilter.filter
SafetyFilter(text) ==
    IF text = GENERATED_MEDICAL
    THEN [text |-> "Let's focus on your breath right now.", is_safe |-> FALSE]
    ELSE [text |-> text, is_safe |-> TRUE]

----------------------------------------------------------------------------
(* Request handlers, src/app/main.py *)

NoButtons == <<>>
CheckInButtons == <<"better", "same", "worse">>
EscalationButtons == <<"contact_support", "continue_alone">>

NoCall ==
    [op |-> "none", chat_id |-> None, match_counts |-> None,
     text_prob |-> NoProb, distress_prob |-> NoProb,
     is_crisis |-> FALSE, is_stop |-> FALSE,
     prior_state |-> None, proposed |-> None, state |-> None,
     state_changed |-> FALSE, args |-> None, result |-> None]

NoResponse ==
    [kind |-> "none", reply_text |-> "",
     state |-> None, confidence |-> 0, intervention_type |-> None,
     buttons |-> NoButtons, expect_followup |-> FALSE,
     followup_after_sec |-> 0]

\* messages sent to /distress/infer, by the match counts they produce
InferMessages ==
    {Msg(0, 0, 0, 0, 0, 0),      \* "hello"
     Msg(0, 2, 0, 0, 0, 0),      \* "I'm having a panic attack, I can't breathe"
     Msg(0, 0, 0, 2, 0, 0),      \* "I feel anxious and stressed"
     Msg(0, 0, 0, 1, 0, 0),      \* "I feel anxious"
     Msg(1, 0, 0, 0, 0, 0),      \* "I don't want to live anymore"
     Msg(0, 0, 0, 0, 1, 0),      \* "I'm feeling better now"
     Msg(0, 0, 0, 0, 0, 1),      \* "stop"
     Msg(1, 0, 0, 0, 0, 1),      \* "stop, I want to die"
     Msg(0, 2, 2, 2, 0, 0)}      \* two panic, two overwhelmed, two rising matches

\* what detector.detect returned in the infer handler
InferCall(chat_id, m, d, prior) ==
    [NoCall EXCEPT !.op = "infer", !.chat_id = chat_id, !.match_counts = m,
                   !.text_prob = d.text_prob, !.distress_prob = d.distress_prob,
                   !.is_crisis = d.is_crisis, !.is_stop = d.is_stop,
                   !.prior_state = prior]

\* variant: a stop message with a crisis match also marks the session
\* CRISIS_RISK
InferStop_MarksCrisis(chat_id, m, d, s1) ==
    /\ sessions' = UpdateSession(s1, chat_id, now,
                                 IF d.is_crisis THEN CRISIS_RISK ELSE None,
                                 NoProb, None, FALSE, TRUE)
    /\ UNCHANGED <<state_history, grounding_step, breathing_step>>
    /\ call' = InferCall(chat_id, m, d, s1[chat_id].current_state)
    /\ response' =
          [kind |-> "stop_ack",
           reply_text |-> "Understood. I'm here if you need me.",
           state |-> CALM, confidence |-> Scale, intervention_type |-> None,
           buttons |-> NoButtons, expect_followup |-> FALSE,
           followup_after_sec |-> 0]

\* POST /distress/infer, the stop branch
InferStop(chat_id, m, d, s1) ==
    /\ sessions' = UpdateSession(s1, chat_id, now, None, NoProb, None, FALSE, TRUE)
    /\ UNCHANGED <<state_history, grounding_step, breathing_step>>
    /\ call' = InferCall(chat_id, m, d, s1[chat_id].current_state)
    /\ response' =
          [kind |-> "stop_ack",
           reply_text |-> "Understood. I'm here if you need me.",
           state |-> CALM, confidence |-> Scale, intervention_type |-> None,
           buttons |-> NoButtons, expect_followup |-> FALSE,
           followup_after_sec |-> 0]

\* variant: the offer is returned without the flag being set
InferEscalate_NoFlag(chat_id, s2, d, r) ==
    /\ sessions' = s2
    /\ UNCHANGED <<grounding_step, breathing_step>>
    /\ response' =
          [kind |-> "escalation_offer",
           reply_text |-> GetEscalationPrompt,
           state |-> r.state, confidence |-> d.distress_prob,
           intervention_type |-> None,
           buttons |-> EscalationButtons, expect_followup |-> TRUE,
           followup_after_sec |-> 0]

\* POST /distress/infer, the escalation branch
InferEscalate(chat_id, s2, d, r) ==
    /\ sessions' = UpdateSession(s2, chat_id, now, None, NoProb, None, TRUE, FALSE)
    /\ UNCHANGED <<grounding_step, breathing_step>>
    /\ response' =
          [kind |-> "escalation_offer",
           reply_text |-> GetEscalationPrompt,
           state |-> r.state, confidence |-> d.distress_prob,
           intervention_type |-> None,
           buttons |-> EscalationButtons, expect_followup |-> TRUE,
           followup_after_sec |-> 0]

\* POST /distress/infer, the intervention branch
InferIntervene(chat_id, s2, d, r, llm) ==
    LET iv == GetIntervention(r.state, chat_id, grounding_step, breathing_step)
        coaching_text == GenerateResponse(r.state, llm)
        f == SafetyFilter(coaching_text)
        filtered_text == IF f.is_safe THEN f.text ELSE iv.prompt
        expect_followup == r.state \notin {CALM, RECOVERY}
        should_check_in == r.state \in {PANIC, OVERWHELMED, RISING}
                            /\ iv.duration > 0
    IN  /\ sessions' = UpdateSession(s2, chat_id, now, None, NoProb, iv.type,
                                     FALSE, FALSE)
        /\ grounding_step' = iv.grounding_step
        /\ breathing_step' = iv.breathing_step
        /\ response' =
              [kind |-> "coaching",
               reply_text |-> filtered_text,
               state |-> r.state, confidence |-> d.distress_prob,
               intervention_type |-> iv.type,
               buttons |-> IF should_check_in THEN CheckInButtons ELSE NoButtons,
               expect_followup |-> expect_followup,
               followup_after_sec |-> IF expect_followup THEN iv.duration ELSE 0]

\* what sanitize_user_input returns for a message of white space only
EmptyText == ""

\* raise HTTPException(status_code=400, detail="Message cannot be empty")
EmptyMessageError == [status_code |-> 400, detail |-> "Message cannot be empty"]

\* the except clause of infer_distress: any Exception raised in the try
\* block, an HTTPException included, is replaced by a 500
InferExcept(e) ==
    [status_code |-> 500, detail |-> "Internal error", cause |-> e]

\* the reply FastAPI sends for an HTTPException that leaves the handler
ErrorResponse(e) ==
    [kind |-> "error", reply_text |-> e.detail,
     state |-> None, confidence |-> 0, intervention_type |-> None,
     buttons |-> NoButtons, expect_followup |-> FALSE,
     followup_after_sec |-> 0, status_code |-> e.status_code]

\* POST /distress/infer with a message that is empty after sanitization
InferEmpty(chat_id) ==
    /\ served < MaxRequests
    /\ served' = served + 1
    /\ call' = [NoCall EXCEPT !.op = "infer_empty", !.chat_id = chat_id,
                              !.args = EmptyText]
    /\ response' = ErrorResponse(InferExcept(EmptyMessageError))
    /\ UNCHANGED <<now, sessions, state_history, grounding_step,
                   breathing_step, confirmation_window>>

\* POST /distress/infer with a non-empty message
Infer(chat_id, m, llm) ==
    /\ served < MaxRequests
    /\ served' = served + 1
    /\ UNCHANGED <<now, confirmation_window>>
    /\ LET s1 == GetOrCreateSession(sessions, chat_id, now)
           d == Detect(m)
       IN  IF d.is_stop
           THEN llm = "ok" /\ InferStop(chat_id, m, d, s1)
           ELSE LET r == DetermineState(s1[chat_id], chat_id, state_history,
                                        confirmation_window, d.distress_prob,
                                        d.is_crisis)
                    s2 == UpdateSession(s1, chat_id, now, r.state,
                                        d.distress_prob, None, FALSE, FALSE)
                IN  /\ state_history' = r.state_history
                    /\ call' = [InferCall(chat_id, m, d, s1[chat_id].current_state)
                                  EXCEPT !.proposed = r.proposed,
                                         !.state = r.state,
                                         !.state_changed = r.state_changed,
                                         !.args = llm]
                    /\ IF ShouldEscalate(s2[chat_id], now)
                          /\ ~s2[chat_id].escalation_offered
                       THEN llm = "ok" /\ InferEscalate(chat_id, s2, d, r)
                       ELSE InferIntervene(chat_id, s2, d, r, llm)

\* variant: "better" leaves a session in CRISIS_RISK where it is
CheckInBetter_KeepsCrisis(chat_id, s1) ==
    LET new_state == IF s1[chat_id].current_state = CRISIS_RISK
                     THEN CRISIS_RISK ELSE RECOVERY
    IN  /\ sessions' = UpdateSession(s1, chat_id, now, new_state, NoProb, None,
                                     FALSE, FALSE)
        /\ UNCHANGED <<grounding_step, breathing_step>>
        /\ response' =
              [kind |-> "checkin",
               reply_text |-> "Your body is settling. Take two slow breaths.",
               state |-> new_state, confidence |-> s1[chat_id].distress_prob,
               intervention_type |-> s1[chat_id].last_intervention,
               buttons |-> NoButtons, expect_followup |-> FALSE,
               followup_after_sec |-> 0]

\* POST /distress/checkin, response "better"
CheckInBetter(chat_id, s1) ==
    /\ sessions' = UpdateSession(s1, chat_id, now, RECOVERY, NoProb, None,
                                 FALSE, FALSE)
    /\ UNCHANGED <<grounding_step, breathing_step>>
    /\ response' =
          [kind |-> "checkin",
           reply_text |-> "Your body is settling. Take two slow breaths.",
           state |-> RECOVERY, confidence |-> s1[chat_id].distress_prob,
           intervention_type |-> s1[chat_id].last_intervention,
           buttons |-> NoButtons, expect_followup |-> FALSE,
           followup_after_sec |-> 0]

\* POST /distress/checkin, response "same"
CheckInSame(chat_id, s1) ==
    LET to_grounding == s1[chat_id].last_intervention
                            \in {None, INTERVENTIONS[PANIC].type}
        new_state == IF to_grounding THEN OVERWHELMED ELSE PANIC
    IN  /\ sessions' = UpdateSession(s1, chat_id, now, new_state, NoProb, None,
                                     FALSE, FALSE)
        /\ UNCHANGED <<grounding_step, breathing_step>>
        /\ response' =
              [kind |-> "checkin",
               reply_text |->
                  IF to_grounding
                  THEN "Let's try grounding. Name five things you can see."
                  ELSE "In for four, hold seven, out for eight.",
               state |-> new_state, confidence |-> s1[chat_id].distress_prob,
               intervention_type |-> s1[chat_id].last_intervention,
               buttons |-> CheckInButtons, expect_followup |-> TRUE,
               followup_after_sec |-> 45]

\* POST /distress/checkin, response "worse", session older than the timeout
CheckInWorseEscalate(chat_id, s1) ==
    LET s2 == UpdateSession(s1, chat_id, now, None, NoProb, None, TRUE, FALSE)
        new_state == s1[chat_id].current_state
    IN  /\ sessions' = UpdateSession(s2, chat_id, now, new_state, NoProb, None,
                                     FALSE, FALSE)
        /\ UNCHANGED <<grounding_step, breathing_step>>
        /\ response' =
              [kind |-> "escalation_offer",
               reply_text |-> GetEscalationPrompt,
               state |-> new_state, confidence |-> s1[chat_id].distress_prob,
               intervention_type |-> s1[chat_id].last_intervention,
               buttons |-> EscalationButtons, expect_followup |-> TRUE,
               followup_after_sec |-> 0]

\* variant: the "worse" branch records the intervention it asked for
CheckInWorseIntervene_Records(chat_id, s1, llm) ==
    LET new_state == s1[chat_id].current_state
        iv == GetIntervention(new_state, chat_id, grounding_step, breathing_step)
        f == SafetyFilter(GenerateResponse(new_state, llm))
    IN  /\ sessions' = UpdateSession(s1, chat_id, now, new_state, NoProb,
                                     iv.type, FALSE, FALSE)
        /\ grounding_step' = iv.grounding_step
        /\ breathing_step' = iv.breathing_step
        /\ response' =
              [kind |-> "checkin",
               reply_text |-> f.text,
               state |-> new_state, confidence |-> s1[chat_id].distress_prob,
               intervention_type |-> s1[chat_id].last_intervention,
               buttons |-> CheckInButtons, expect_followup |-> TRUE,
               followup_after_sec |-> iv.duration]

\* POST /distress/checkin, response "worse", session younger than the timeout
CheckInWorseIntervene(chat_id, s1, llm) ==
    LET new_state == s1[chat_id].current_state
        iv == GetIntervention(new_state, chat_id, grounding_step, breathing_step)
        f == SafetyFilter(GenerateResponse(new_state, llm))
    IN  /\ sessions' = UpdateSession(s1, chat_id, now, new_state, NoProb, None,
                                     FALSE, FALSE)
        /\ grounding_step' = iv.grounding_step
        /\ breathing_step' = iv.breathing_step
        /\ response' =
              [kind |-> "checkin",
               reply_text |-> f.text,
               state |-> new_state, confidence |-> s1[chat_id].distress_prob,
               intervention_type |-> s1[chat_id].last_intervention,
               buttons |-> CheckInButtons, expect_followup |-> TRUE,
               followup_after_sec |-> iv.duration]

\* POST /distress/checkin
CheckIn(chat_id, response_type, llm) ==
    /\ served < MaxRequests
    /\ served' = served + 1
    /\ UNCHANGED <<now, confirmation_window, state_history>>
    /\ LET s1 == GetOrCreateSession(sessions, chat_id, now)
       IN  /\ call' = [NoCall EXCEPT !.op = response_type, !.chat_id = chat_id,
                                     !.prior_state = s1[chat_id].current_state,
                                     !.args = llm]
           /\ CASE response_type = BETTER ->
                      llm = "ok" /\ CheckInBetter(chat_id, s1)
                 [] response_type = SAME ->
                      llm = "ok" /\ CheckInSame(chat_id, s1)
                 [] response_type = WORSE ->
                      IF GetSessionDuration(s1, chat_id, now)
                            >= escalation_timeout_seconds
                      THEN llm = "ok" /\ CheckInWorseEscalate(chat_id, s1)
                      ELSE CheckInWorseIntervene(chat_id, s1, llm)

\* POST /distress/stop
StopSession(chat_id) ==
    /\ served < MaxRequests
    /\ served' = served + 1
    /\ sessions' = UpdateSession(sessions, chat_id, now, None, NoProb, None,
                                 FALSE, TRUE)
    /\ call' = [NoCall EXCEPT !.op = "stop", !.chat_id = chat_id]
    /\ response' = [NoResponse EXCEPT !.kind = "stopped"]
    /\ UNCHANGED <<now, confirmation_window, state_history, grounding_step,
                   breathing_step>>

\* time passes between requests
Tick ==
    /\ \E t \in TimePoints : t > now /\ now' = t
    /\ UNCHANGED <<sessions, state_history, grounding_step, breathing_step,
                   confirmation_window, call, response, served>>

Init ==
    /\ now = 0
    /\ sessions = <<>>
    /\ state_history = <<>>
    /\ grounding_step = <<>>
    /\ breathing_step = <<>>
    /\ confirmation_window = 1
    /\ call = NoCall
    /\ response = NoResponse
    /\ served = 0

Next ==
    \/ \E c \in ChatIds, m \in InferMessages, llm \in LlmOutcomes : Infer(c, m, llm)
    \/ \E c \in ChatIds : InferEmpty(c)
    \/ \E c \in ChatIds, r \in CheckInResponse, llm \in LlmOutcomes : CheckIn(c, r, llm)
    \/ \E c \in ChatIds : StopSession(c)
    \/ Tick

Spec == Init /\ [][Next]_vars

----------------------------------------------------------------------------
(* The state machine driven directly, as src/tests/simple_test.py drives   *)
(* it: determine_state is called on a session and the caller stores the    *)
(* returned state and the probability in the session.                      *)

\* histories a session can have when it is handed to the state machine
InitHistories == {<<>>, <<CALM, CALM, CALM, CALM, CALM>>}

InitSM ==
    /\ now = 0
    /\ \E s \in DistressState, b \in BOOLEAN :
          sessions = [c \in {"c1"} |->
                        [NewSession(0) EXCEPT !.current_state = s, !.stopped = b]]
    /\ \E h \in InitHistories :
          state_history = IF h = <<>> THEN <<>> ELSE [c \in {"c1"} |-> h]
    /\ grounding_step = <<>>
    /\ breathing_step = <<>>
    /\ confirmation_window \in 1..MaxW
    /\ call = NoCall
    /\ response = NoResponse
    /\ served = 0

\* test_state_machine: one iteration of the scenario loop
DetermineStateCall(chat_id, prob, is_crisis) ==
    /\ served < MaxCalls
    /\ served' = served + 1
    /\ chat_id \in DOMAIN sessions
    /\ LET session == sessions[chat_id]
           r == DetermineState(session, chat_id, state_history,
                               confirmation_window, prob, is_crisis)
       IN  /\ state_history' = r.state_history
           /\ sessions' = [sessions EXCEPT ![chat_id].current_state = r.state,
                                           ![chat_id].distress_prob = prob]
           /\ call' = [NoCall EXCEPT !.op = "determine_state",
                                     !.chat_id = chat_id,
                                     !.distress_prob = prob,
                                     !.is_crisis = is_crisis,
                                     !.prior_state = session.current_state,
                                     !.proposed = r.proposed,
                                     !.state = r.state,
                                     !.state_changed = r.state_changed]
    /\ UNCHANGED <<now, grounding_step, breathing_step, confirmation_window,
                   response>>

NextSM ==
    \E c \in ChatIds, p \in ProbGrid, k \in BOOLEAN : DetermineStateCall(c, p, k)

SpecSM == InitSM /\ [][NextSM]_vars

----------------------------------------------------------------------------
(* The session store driven directly: the methods of SessionManager and    *)
(* StateMachine.should_escalate are called on the stored sessions with     *)
(* time passing between the calls.                                         *)

\* argument lists of update_session; None, NoProb and FALSE are the
\* defaults of the arguments that are not supplied.  The calls are those of
\* main.py (state with distress_prob, state alone, intervention alone, one
\* flag alone), the call with no argument and the call with all of them.
NoArgs ==
    [state |-> None, distress_prob |-> NoProb, intervention |-> None,
     escalation_offered |-> FALSE, stopped |-> FALSE]

UpdateArgs ==
    {NoArgs}
    \cup {[NoArgs EXCEPT !.state = st] : st \in DistressState}
    \cup {[NoArgs EXCEPT !.distress_prob = 5100],
          [NoArgs EXCEPT !.state = PANIC, !.distress_prob = 5100],
          [NoArgs EXCEPT !.intervention = GROUNDING_54321],
          [NoArgs EXCEPT !.escalation_offered = TRUE],
          [NoArgs EXCEPT !.stopped = TRUE],
          [state |-> PANIC, distress_prob |-> 5100,
           intervention |-> GROUNDING_54321,
           escalation_offered |-> TRUE, stopped |-> TRUE]}

StoreGetOrCreate(chat_id) ==
    /\ served < MaxStoreCalls
    /\ served' = served + 1
    /\ sessions' = GetOrCreateSession(sessions, chat_id, now)
    /\ call' = [NoCall EXCEPT !.op = "get_or_create_session",
                              !.chat_id = chat_id,
                              !.result = sessions'[chat_id]]
    /\ UNCHANGED <<now, state_history, grounding_step, breathing_step,
                   confirmation_window, response>>

StoreUpdate(chat_id, a) ==
    /\ served < MaxStoreCalls
    /\ served' = served + 1
    /\ sessions' = UpdateSession(sessions, chat_id, now, a.state,
                                 a.distress_prob, a.intervention,
                                 a.escalation_offered, a.stopped)
    /\ call' = [NoCall EXCEPT !.op = "update_session",
                              !.chat_id = chat_id,
                              !.args = a,
                              !.result = sessions'[chat_id]]
    /\ UNCHANGED <<now, state_history, grounding_step, breathing_step,
                   confirmation_window, response>>

StoreShouldCheckIn(chat_id) ==
    /\ served < MaxStoreCalls
    /\ served' = served + 1
    /\ sessions' = GetOrCreateSession(sessions, chat_id, now)
    /\ call' = [NoCall EXCEPT !.op = "should_check_in",
                              !.chat_id = chat_id,
                              !.result = ShouldCheckIn(sessions', chat_id, now)]
    /\ UNCHANGED <<now, state_history, grounding_step, breathing_step,
                   confirmation_window, response>>

StoreCanIntervene(chat_id) ==
    /\ served < MaxStoreCalls
    /\ served' = served + 1
    /\ sessions' = GetOrCreateSession(sessions, chat_id, now)
    /\ call' = [NoCall EXCEPT !.op = "can_intervene",
                              !.chat_id = chat_id,
                              !.result = CanIntervene(sessions', chat_id, now)]
    /\ UNCHANGED <<now, state_history, grounding_step, breathing_step,
                   confirmation_window, response>>

StoreGetSessionDuration(chat_id) ==
    /\ served < MaxStoreCalls
    /\ served' = served + 1
    /\ sessions' = GetOrCreateSession(sessions, chat_id, now)
    /\ call' = [NoCall EXCEPT !.op = "get_session_duration",
                              !.chat_id = chat_id,
                              !.result = GetSessionDuration(sessions', chat_id, now)]
    /\ UNCHANGED <<now, state_history, grounding_step, breathing_step,
                   confirmation_window, response>>

StoreEndSession(chat_id) ==
    /\ served < MaxStoreCalls
    /\ served' = served + 1
    /\ sessions' = EndSession(sessions, chat_id)
    /\ call' = [NoCall EXCEPT !.op = "end_session", !.chat_id = chat_id]
    /\ UNCHANGED <<now, state_history, grounding_step, breathing_step,
                   confirmation_window, response>>

\* should_escalate on a session the caller holds, as infer_distress calls it
StoreShouldEscalate(chat_id) ==
    /\ served < MaxStoreCalls
    /\ served' = served + 1
    /\ chat_id \in DOMAIN sessions
    /\ call' = [NoCall EXCEPT !.op = "should_escalate",
                              !.chat_id = chat_id,
                              !.result = ShouldEscalate(sessions[chat_id], now)]
    /\ UNCHANGED <<now, sessions, state_history, grounding_step,
                   breathing_step, confirmation_window, response>>

\* time passes between the calls
StoreTick ==
    /\ \E t \in StoreTimePoints : t > now /\ now' = t
    /\ UNCHANGED <<sessions, state_history, grounding_step, breathing_step,
                   confirmation_window, call, response, served>>

NextStore ==
    \/ \E c \in ChatIds : StoreGetOrCreate(c)
    \/ \E c \in ChatIds, a \in UpdateArgs : StoreUpdate(c, a)
    \/ \E c \in ChatIds : StoreShouldCheckIn(c)
    \/ \E c \in ChatIds : StoreCanIntervene(c)
    \/ \E c \in ChatIds : StoreGetSessionDuration(c)
    \/ \E c \in ChatIds : StoreEndSession(c)
    \/ \E c \in ChatIds : StoreShouldEscalate(c)
    \/ StoreTick

SpecStore == Init /\ [][NextStore]_vars

----------------------------------------------------------------------------

(* The intervention sequencer driven directly: get_intervention and        *)
(* reset_steps are called on a new InterventionManager in any mix of       *)
(* states and chat_ids.  Here served counts, for each chat_id and each     *)
(* state with a multi-step script, the get_intervention calls made since   *)
(* the cursors of chat_id were last new.                                   *)

\* the states whose intervention is a script of several steps
MultiStepStates ==
    {s \in DOMAIN INTERVENTIONS :
        \/ INTERVENTIONS[s].type = GROUNDING_54321
        \/ INTERVENTIONS[s].type \in DOMAIN BREATHING_CUES}

RECURSIVE SumCalls(_, _)
SumCalls(f, S) ==
    IF S = {} THEN 0
    ELSE LET x == CHOOSE y \in S : TRUE IN f[x] + SumCalls(f, S \ {x})

InitSeq ==
    /\ now = 0
    /\ sessions = <<>>
    /\ state_history = <<>>
    /\ grounding_step = <<>>
    /\ breathing_step = <<>>
    /\ confirmation_window = 1
    /\ call = NoCall
    /\ response = NoResponse
    /\ served = [p \in ChatIds \X MultiStepStates |-> 0]

SeqGetIntervention(chat_id, state) ==
    /\ SumCalls(served, DOMAIN served) < MaxSeqCalls
    /\ served' = [p \in DOMAIN served |->
                     IF p = <<chat_id, state>> THEN served[p] + 1 ELSE served[p]]
    /\ LET r == GetIntervention(state, chat_id, grounding_step, breathing_step)
       IN  /\ grounding_step' = r.grounding_step
           /\ breathing_step' = r.breathing_step
           /\ call' = [NoCall EXCEPT !.op = "get_intervention",
                                     !.chat_id = chat_id,
                                     !.state = state,
                                     !.result = [type |-> r.type,
                                                 duration |-> r.duration,
                                                 prompt |-> r.prompt]]
    /\ UNCHANGED <<now, sessions, state_history, confirmation_window, response>>

SeqResetSteps(chat_id) ==
    /\ chat_id \in DOMAIN grounding_step \cup DOMAIN breathing_step
    /\ grounding_step' = ResetSteps(grounding_step, chat_id)
    /\ breathing_step' = ResetSteps(breathing_step, chat_id)
    /\ served' = [p \in DOMAIN served |-> IF p[1] = chat_id THEN 0 ELSE served[p]]
    /\ call' = [NoCall EXCEPT !.op = "reset_steps", !.chat_id = chat_id]
    /\ UNCHANGED <<now, sessions, state_history, confirmation_window, response>>

NextSeq ==
    \/ \E c \in ChatIds, s \in DistressState : SeqGetIntervention(c, s)
    \/ \E c \in ChatIds : SeqResetSteps(c)

SpecSeq == InitSeq /\ [][NextSeq]_vars

----------------------------------------------------------------------------

(* The detector applied to one message: a DistressDetector is built with   *)
(* the drawn weights and detect is called on the drawn message.            *)

\* weights a DistressDetector is built with, in tenths; some lie outside
\* [0, 1]
WeightGrid == {-5, 0, 4, 6, 15}

\* answers of the audio detector (documented range 0.0-1.0; the placeholder
\* answers 0.0)
AudioProbs == {0, 5000, Scale}

InitDetect ==
    /\ now = 0
    /\ sessions = <<>>
    /\ state_history = <<>>
    /\ grounding_step = <<>>
    /\ breathing_step = <<>>
    /\ confirmation_window = 1
    /\ \E m \in MatchCounts, tw \in WeightGrid, aw \in WeightGrid,
          ap \in AudioProbs :
          call = [NoCall EXCEPT !.match_counts = m,
                                !.args = [text_weight |-> tw,
                                          audio_weight |-> aw,
                                          audio_prob |-> ap]]
    /\ response = NoResponse
    /\ served = 0

DetectCall ==
    /\ call.op = "none"
    /\ served' = served + 1
    /\ LET d == DetectWith(call.match_counts, call.args.text_weight,
                           call.args.audio_weight, call.args.audio_prob)
       IN  call' = [call EXCEPT !.op = "detect",
                                !.text_prob = d.text_prob,
                                !.distress_prob = d.distress_prob,
                                !.is_crisis = d.is_crisis,
                                !.is_stop = d.is_stop]
    /\ UNCHANGED <<now, sessions, state_history, grounding_step,
                   breathing_step, confirmation_window, response>>

NextDetect == DetectCall

SpecDetect == InitDetect /\ [][NextDetect]_vars

----------------------------------------------------------------------------

(* The request handlers as coroutines.  A handler runs without             *)
(* interruption up to an await (llm_client.generate_response,              *)
(* tts_client.synthesize) and may be suspended there while other requests  *)
(* run.  Both coroutines are treated as able to suspend, which includes    *)
(* every interleaving the event loop can produce.  All requests arrive at  *)
(* the same instant.  Here call is the list of the requests started so     *)
(* far, each with its position and the local variables it holds.           *)

\* the cursor a call of get_intervention for this intervention type moves
SeqKind(type) ==
    IF type = GROUNDING_54321 THEN "grounding"
    ELSE IF type \in DOMAIN BREATHING_CUES THEN "breathing"
    ELSE "none"

\* a request that has just entered its handler
NewRequest(op, chat_id) ==
    [op |-> op, chat_id |-> chat_id, pc |-> "start",
     session |-> None,            \* session, as read at the start
     new_state |-> None, intervention_type |-> None,
     seq |-> "none",              \* cursor moved by get_intervention
     recorded |-> FALSE,          \* update_session(intervention=...) done
     set_stopped |-> FALSE,       \* update_session(stopped=True) done
     set_escalation |-> FALSE,    \* update_session(escalation_offered=True) done
     concurrent |-> FALSE]        \* another request was suspended at the start

Suspended(reqs) == {i \in DOMAIN reqs : reqs[i].pc \in {"await_llm", "await_tts"}}

\* variant: the session the handler read at its start is a copy, and the
\* intervention is written into the copy and the copy stored back
RecordIntervention_WriteBack(s, r, t) ==
    [c \in DOMAIN s \cup {r.chat_id} |->
        IF c = r.chat_id
        THEN [r.session EXCEPT !.last_intervention = r.intervention_type,
                               !.last_intervention_time = t,
                               !.intervention_count = @ + 1,
                               !.last_update = t]
        ELSE s[c]]

\* infer_distress after the generator has answered: the store left by
\* update_session(chat_id, intervention=intervention_type)
RecordIntervention(s, r, t) ==
    UpdateSession(s, r.chat_id, t, None, NoProb, r.intervention_type,
                  FALSE, FALSE)

\* variant: the flag is set only after the await on the synthesizer, so the
\* segment that tests it leaves it as it is
OfferEscalation_Deferred(s, chat_id, t) == s

\* infer_distress, line 134: update_session(chat_id, escalation_offered=True),
\* in the same segment as the test of the flag on line 132
OfferEscalation(s, chat_id, t) ==
    UpdateSession(s, chat_id, t, None, NoProb, None, TRUE, FALSE)

\* infer_distress from its start to its first await or to its return
AsyncInferStart(chat_id, m) ==
    /\ served < MaxInflight
    /\ served' = served + 1
    /\ LET s1 == GetOrCreateSession(sessions, chat_id, now)
           d == Detect(m)
           req == [NewRequest("infer", chat_id) EXCEPT
                      !.session = s1[chat_id],
                      !.concurrent = Suspended(call) # {}]
       IN  IF d.is_stop
           THEN /\ sessions' = GetOrCreateSession(
                                  UpdateSession(s1, chat_id, now, None, NoProb,
                                                None, FALSE, TRUE),
                                  chat_id, now)
                /\ call' = Append(call, [req EXCEPT !.pc = "done",
                                                    !.set_stopped = TRUE])
                /\ UNCHANGED <<state_history, grounding_step, breathing_step>>
           ELSE LET r == DetermineState(s1[chat_id], chat_id, state_history,
                                        confirmation_window, d.distress_prob,
                                        d.is_crisis)
                    s2 == UpdateSession(s1, chat_id, now, r.state,
                                        d.distress_prob, None, FALSE, FALSE)
                IN  /\ state_history' = r.state_history
                    /\ IF ShouldEscalate(s2[chat_id], now)
                          /\ ~s2[chat_id].escalation_offered
                       THEN /\ sessions' = OfferEscalation(s2, chat_id, now)
                            /\ call' = Append(call,
                                  [req EXCEPT !.pc = "await_tts",
                                              !.new_state = r.state,
                                              !.set_escalation = TRUE])
                            /\ UNCHANGED <<grounding_step, breathing_step>>
                       ELSE LET iv == GetIntervention(r.state, chat_id,
                                                      grounding_step,
                                                      breathing_step)
                            IN  /\ sessions' = s2
                                /\ grounding_step' = iv.grounding_step
                                /\ breathing_step' = iv.breathing_step
                                /\ call' = Append(call,
                                      [req EXCEPT !.pc = "await_llm",
                                                  !.new_state = r.state,
                                                  !.intervention_type = iv.type,
                                                  !.seq = SeqKind(iv.type)])
    /\ UNCHANGED <<now, confirmation_window, response>>

\* checkin_followup from its start to its first await
AsyncCheckInStart(chat_id, response_type) ==
    /\ served < MaxInflight
    /\ served' = served + 1
    /\ LET s1 == GetOrCreateSession(sessions, chat_id, now)
           session == s1[chat_id]
           req == [NewRequest(response_type, chat_id) EXCEPT
                      !.session = session,
                      !.concurrent = Suspended(call) # {}]
       IN  CASE response_type = BETTER ->
                  /\ sessions' = UpdateSession(s1, chat_id, now, RECOVERY,
                                               NoProb, None, FALSE, FALSE)
                  /\ call' = Append(call, [req EXCEPT !.pc = "await_tts",
                                                      !.new_state = RECOVERY])
                  /\ UNCHANGED <<grounding_step, breathing_step>>
             [] response_type = SAME ->
                  LET new_state ==
                         IF session.last_intervention
                               \in {None, INTERVENTIONS[PANIC].type}
                         THEN OVERWHELMED ELSE PANIC
                  IN  /\ sessions' = UpdateSession(s1, chat_id, now, new_state,
                                                   NoProb, None, FALSE, FALSE)
                      /\ call' = Append(call, [req EXCEPT !.pc = "await_tts",
                                                          !.new_state = new_state])
                      /\ UNCHANGED <<grounding_step, breathing_step>>
             [] response_type = WORSE ->
                  IF GetSessionDuration(s1, chat_id, now)
                        >= escalation_timeout_seconds
                  THEN /\ sessions' =
                             UpdateSession(
                                UpdateSession(s1, chat_id, now, None, NoProb,
                                              None, TRUE, FALSE),
                                chat_id, now, session.current_state, NoProb,
                                None, FALSE, FALSE)
                       /\ call' = Append(call,
                             [req EXCEPT !.pc = "await_tts",
                                         !.new_state = session.current_state,
                                         !.set_escalation = TRUE])
                       /\ UNCHANGED <<grounding_step, breathing_step>>
                  ELSE LET iv == GetIntervention(session.current_state, chat_id,
                                                 grounding_step, breathing_step)
                       IN  /\ sessions' = s1
                           /\ grounding_step' = iv.grounding_step
                           /\ breathing_step' = iv.breathing_step
                           /\ call' = Append(call,
                                 [req EXCEPT !.pc = "await_llm",
                                             !.new_state = session.current_state,
                                             !.seq = SeqKind(iv.type)])
    /\ UNCHANGED <<now, state_history, confirmation_window, response>>

\* stop_session: it has no await
AsyncStop(chat_id) ==
    /\ served < MaxInflight
    /\ served' = served + 1
    /\ sessions' = UpdateSession(sessions, chat_id, now, None, NoProb, None,
                                 FALSE, TRUE)
    /\ call' = Append(call, [NewRequest("stop", chat_id) EXCEPT
                                !.pc = "done", !.set_stopped = TRUE,
                                !.concurrent = Suspended(call) # {}])
    /\ UNCHANGED <<now, state_history, grounding_step, breathing_step,
                   confirmation_window, response>>

\* a handler resumes after llm_client.generate_response and runs to the
\* await of tts_client.synthesize
AsyncAfterLlm(i) ==
    /\ i \in DOMAIN call
    /\ call[i].pc = "await_llm"
    /\ LET r == call[i]
       IN  IF r.op = "infer"
           THEN /\ sessions' = RecordIntervention(sessions, r, now)
                /\ call' = [call EXCEPT ![i].pc = "await_tts",
                                        ![i].recorded = TRUE]
           ELSE /\ sessions' = UpdateSession(sessions, r.chat_id, now,
                                             r.new_state, NoProb, None,
                                             FALSE, FALSE)
                /\ call' = [call EXCEPT ![i].pc = "await_tts"]
    /\ UNCHANGED <<now, state_history, grounding_step, breathing_step,
                   confirmation_window, response, served>>

\* a handler resumes after tts_client.synthesize and returns; building the
\* reply calls get_session_duration
AsyncAfterTts(i) ==
    /\ i \in DOMAIN call
    /\ call[i].pc = "await_tts"
    /\ sessions' = GetOrCreateSession(sessions, call[i].chat_id, now)
    /\ call' = [call EXCEPT ![i].pc = "done"]
    /\ UNCHANGED <<now, state_history, grounding_step, breathing_step,
                   confirmation_window, response, served>>

InitAsync ==
    /\ now = 0
    /\ sessions = <<>>
    /\ state_history = <<>>
    /\ grounding_step = <<>>
    /\ breathing_step = <<>>
    /\ confirmation_window = 1
    /\ call = <<>>
    /\ response = NoResponse
    /\ served = 0

NextAsync ==
    \/ \E c \in ChatIds, m \in InferMessages : AsyncInferStart(c, m)
    \/ \E c \in ChatIds, r \in CheckInResponse : AsyncCheckInStart(c, r)
    \/ \E c \in ChatIds : AsyncStop(c)
    \/ \E i \in 1..MaxInflight : AsyncAfterLlm(i)
    \/ \E i \in 1..MaxInflight : AsyncAfterTts(i)

SpecAsync == InitAsync /\ [][NextAsync]_vars

----------------------------------------------------------------------------

(* Properties of the state machine (SpecSM) *)

\* the determine_state call just made was made on a stopped session
\* (DetermineStateCall never changes the flag)
CallOnStopped == sessions[call.chat_id].stopped

\* C1: on a session that is not stopped, determine_state with is_crisis=true
\* returns CRISIS_RISK for every probability and every current state, computes
\* no proposed state, leaves the history alone, and reports state_changed
\* exactly when the prior confirmed state was not CRISIS_RISK.
C1_CrisisBypassesThresholds ==
    [][(/\ served' = served + 1
        /\ call'.op = "determine_state"
        /\ call'.is_crisis
        /\ ~sessions[call'.chat_id].stopped)
       => (/\ call'.state = CRISIS_RISK
           /\ call'.state_changed
                = (sessions[call'.chat_id].current_state # CRISIS_RISK)
           /\ call'.proposed = None
           /\ state_history' = state_history)]_vars

\* C1 witness: a crisis call with probability 0 on a PANIC session that is not
\* stopped and has a full history returned CRISIS_RISK, changed.
C1_Witness ==
    /\ call.op = "determine_state"
    /\ call.is_crisis
    /\ ~CallOnStopped
    /\ call.distress_prob = 0
    /\ call.prior_state = PANIC
    /\ call.state = CRISIS_RISK
    /\ call.state_changed
    /\ Len(HistoryOf(state_history, call.chat_id)) = 5

\* C2: on a stopped session determine_state returns (CALM, state_changed=false)
\* for every probability, every current state and every is_crisis.
C2_StoppedAlwaysCalm ==
    (call.op = "determine_state" /\ CallOnStopped)
    => (call.state = CALM /\ ~call.state_changed)

\* the proposed state as the band table gives it, the RECOVERY rule first
BandTable(prob, current_state) ==
    CASE prob >= 6000 -> PANIC
      [] 5000 <= prob /\ prob < 6000 -> OVERWHELMED
      [] 2500 <= prob /\ prob < 5000 -> RISING
      [] 2000 <= prob /\ prob < 2500 ->
            IF current_state = RECOVERY THEN CALM ELSE RISING
      [] 1000 <= prob /\ prob < 2000 ->
            IF current_state \in {PANIC, OVERWHELMED, RISING}
            THEN RECOVERY ELSE CALM
      [] prob < 1000 -> CALM

\* the proposed state as the bands-before-current-state reading gives it
BandTableBandsFirst(prob, current_state) ==
    CASE prob >= 6000 -> PANIC
      [] 5000 <= prob /\ prob < 6000 -> OVERWHELMED
      [] 2000 <= prob /\ prob < 5000 -> RISING
      [] 1000 <= prob /\ prob < 2000 ->
            IF current_state \in {PANIC, OVERWHELMED, RISING}
            THEN RECOVERY ELSE CALM
      [] prob < 1000 -> CALM

\* C8 as stated: the three bands are tested before any rule that looks at
\* the current state, so RECOVERY with 0.2 <= prob < 0.25 is proposed RISING.
C8_BandsBeforeCurrentState ==
    (call.op = "determine_state" /\ call.proposed # None)
    => call.proposed = BandTableBandsFirst(call.distress_prob, call.prior_state)

\* C8 amended: the RECOVERY rule is tested first, so a session in RECOVERY
\* with prob < 0.25 is proposed CALM (also for 0.2 <= prob < 0.25); in every
\* other case the bands decide: PANIC from 0.6, OVERWHELMED in [0.5, 0.6),
\* RISING in [0.2, 0.5), and below 0.2 RECOVERY when the current state is
\* PANIC, OVERWHELMED or RISING and prob >= 0.1, CALM otherwise.
C8_RecoveryRuleFirst ==
    (call.op = "determine_state" /\ call.proposed # None)
    => call.proposed = BandTable(call.distress_prob, call.prior_state)

\* C8 witness: a RECOVERY session given probability 0.225 was proposed CALM.
C8_Witness ==
    /\ call.op = "determine_state"
    /\ call.prior_state = RECOVERY
    /\ call.distress_prob = 2250
    /\ call.proposed = CALM

\* the last w entries of h exist and all equal x
LastAllEqual(h, w, x) ==
    /\ Len(h) >= w
    /\ \A i \in 1..Len(h) : i > Len(h) - w => h[i] = x

\* C9: a non-crisis call on a session that is not stopped appends the proposed
\* state to the history (dropping the oldest of six) and returns the proposed
\* state exactly when the last W history entries all equal it, the prior
\* confirmed state otherwise; with W = 1 the returned state is the proposed
\* one, and a change is reported only after W identical proposals in a row.
C9_ConfirmationWindow ==
    [][(/\ served' = served + 1
        /\ call'.op = "determine_state"
        /\ ~call'.is_crisis
        /\ ~sessions[call'.chat_id].stopped)
       => LET h == HistoryOf(state_history, call'.chat_id)
              h2 == HistoryOf(state_history', call'.chat_id)
              w == confirmation_window
              x == call'.proposed
          IN  /\ x \in DistressState
              /\ h2 = IF Len(h) < 5 THEN Append(h, x) ELSE Append(Tail(h), x)
              /\ call'.state = IF LastAllEqual(h2, w, x)
                               THEN x ELSE call'.prior_state
              /\ w = 1 => call'.state = x
              /\ call'.state_changed => LastAllEqual(h2, w, x)]_vars

\* C9 witness: with W = 3 a change of state was accepted on the third
\* identical proposal, the two before it having left the state unchanged.
C9_Witness ==
    /\ confirmation_window = 3
    /\ call.op = "determine_state"
    /\ call.state_changed
    /\ call.state = call.proposed
    /\ served = 3
    /\ state_history["c1"] = <<call.proposed, call.proposed, call.proposed>>

\* C28: the history of every chat_id holds at most 5 entries, and a call
\* that appends a proposed state leaves the old history followed by the
\* proposed state, without its oldest entry when that makes six.
C28_HistoryBounded ==
    /\ [](\A c \in ChatIds : Len(HistoryOf(state_history, c)) <= 5)
    /\ [][(served' = served + 1 /\ call'.proposed # None) =>
            LET old == HistoryOf(state_history, call'.chat_id)
                new == HistoryOf(state_history', call'.chat_id)
                all == old \o <<call'.proposed>>
            IN  /\ Len(new) = (IF Len(old) < 5 THEN Len(old) + 1 ELSE 5)
                /\ \A i \in 1..Len(new) :
                      new[i] = all[Len(all) - Len(new) + i]
                /\ \A c \in ChatIds \ {call'.chat_id} :
                      HistoryOf(state_history', c) = HistoryOf(state_history, c)]_vars

\* a sixth proposed state, not CALM, was appended to a history of five CALM
C28_Witness ==
    /\ call.op = "determine_state"
    /\ call.proposed \notin {None, CALM}
    /\ HistoryOf(state_history, call.chat_id) =
          <<CALM, CALM, CALM, CALM, call.proposed>>

\* C34: the state_changed flag returned by determine_state is true exactly
\* when the returned state differs from the session's current_state before
\* the call, on every path.
C34_ChangedIffDifferent ==
    call.op = "determine_state" =>
        (call.state_changed <=> call.state # call.prior_state)

\* C34 as amended: on the crisis path and on the probability path
\* state_changed is true exactly when the returned state differs from the
\* current_state before the call; for a stopped session without a crisis
\* match the call returns CALM with state_changed false, also when the
\* session was in another state.
C34_ChangedIffDifferentUnlessStopped ==
    call.op = "determine_state" =>
        IF sessions[call.chat_id].stopped /\ ~call.is_crisis
        THEN call.state = CALM /\ ~call.state_changed
        ELSE call.state_changed <=> call.state # call.prior_state

\* a stopped session in RISING was returned CALM with state_changed false
C34_Witness ==
    /\ call.op = "determine_state"
    /\ sessions[call.chat_id].stopped
    /\ ~call.is_crisis
    /\ call.prior_state = RISING
    /\ call.state = CALM
    /\ ~call.state_changed

----------------------------------------------------------------------------
(* Properties of the request handlers (Spec) *)

\* C3: an infer call without crisis and stop matches, on a session that is in
\* CRISIS_RISK and has not been stopped, leaves the session in CRISIS_RISK.
C3_CrisisSticky ==
    (/\ call.op = "infer"
     /\ call.prior_state = CRISIS_RISK
     /\ ~call.is_crisis
     /\ ~call.is_stop
     /\ ~sessions[call.chat_id].stopped)
    => sessions[call.chat_id].current_state = CRISIS_RISK

\* the session of chat_id is the same session before and after the step
SameSession(c) ==
    /\ c \in DOMAIN sessions
    /\ c \in DOMAIN sessions'
    /\ sessions'[c].session_start = sessions[c].session_start

\* C4: once escalation_offered is true for a session, no later infer or
\* check-in call for that session returns the escalation offer.
C4_EscalationOfferedOnce ==
    [][\A c \in ChatIds :
        (/\ served' = served + 1
         /\ call'.chat_id = c
         /\ SameSession(c)
         /\ sessions[c].escalation_offered)
        => response'.kind # "escalation_offer"]_vars

\* C5: escalation_offered and stopped are one-way latches: in a session that
\* stays in the store a flag that is true stays true over every operation.
C5_FlagsAreLatches ==
    [][\A c \in ChatIds :
        SameSession(c)
        => /\ sessions[c].escalation_offered => sessions'[c].escalation_offered
           /\ sessions[c].stopped => sessions'[c].stopped]_vars

\* C5 witness: an infer call without a stop match (update_session called with
\* stopped=False) on a session that was stopped before left the flag true.
C5_Witness ==
    /\ call.op = "infer"
    /\ ~call.is_stop
    /\ call.chat_id \in DOMAIN sessions
    /\ sessions[call.chat_id].stopped
    /\ sessions[call.chat_id].session_start < now

\* C6: an infer call with a stop match leaves the session's stopped flag
\* true, and for a stopped session every determine_state call with
\* is_crisis=false returns (CALM, false) whatever the probability, as does the
\* one made by a later infer call.
C6_StopThenCalm ==
    /\ (call.op = "infer" /\ call.is_stop) => sessions[call.chat_id].stopped
    /\ \A c \in DOMAIN sessions, p \in ProbGrid :
          sessions[c].stopped
          => LET r == DetermineState(sessions[c], c, state_history,
                                     confirmation_window, p, FALSE)
             IN  r.state = CALM /\ ~r.state_changed
    /\ (/\ call.op = "infer"
        /\ ~call.is_stop
        /\ ~call.is_crisis
        /\ sessions[call.chat_id].stopped)
       => (call.state = CALM /\ ~call.state_changed /\ response.state = CALM)

\* C6 witness: after a stop, an infer call with two panic matches returned
\* CALM unchanged.
C6_Witness ==
    /\ call.op = "infer"
    /\ call.match_counts = Msg(0, 2, 0, 0, 0, 0)
    /\ sessions[call.chat_id].stopped
    /\ call.state = CALM
    /\ ~call.state_changed
    /\ served = 2

\* C7: an infer call with a crisis match and no stop match returns
\* meta.state = CRISIS_RISK and leaves current_state = CRISIS_RISK; on a fresh
\* session state_changed is true and the reply is the escalation offer.
C7_CrisisInfer ==
    [][(/\ served' = served + 1
        /\ call'.op = "infer"
        /\ call'.is_crisis
        /\ ~call'.is_stop)
       => LET c == call'.chat_id
          IN  /\ response'.state = CRISIS_RISK
              /\ sessions'[c].current_state = CRISIS_RISK
              /\ c \notin DOMAIN CleanupOldSessions(sessions, now)
                 => /\ call'.state_changed
                    /\ response'.kind = "escalation_offer"
                    /\ response'.reply_text = GetEscalationPrompt
                    /\ response'.buttons = EscalationButtons]_vars

\* C7 witness: the first request of a conversation had a crisis match and was
\* answered with the escalation offer, the session left in CRISIS_RISK.
C7_Witness ==
    /\ served = 1
    /\ call.op = "infer"
    /\ call.is_crisis
    /\ ~call.is_stop
    /\ response.kind = "escalation_offer"
    /\ sessions[call.chat_id].current_state = CRISIS_RISK

\* C10: a message with exactly two panic matches gets classifier probability
\* 0.85 and, as the first message of a conversation, confirmed state PANIC.
C10_TwoPanicMatchesGivePanic ==
    (/\ served = 1
     /\ call.op = "infer"
     /\ call.match_counts = Msg(0, 2, 0, 0, 0, 0))
    => (call.text_prob = 8500 /\ call.state = PANIC)

----------------------------------------------------------------------------
(* Properties of the session store (SpecStore) *)

\* a step that is a call of the named method
StoreCall(op) == served' = served + 1 /\ call'.op = op

\* C11: should_escalate(session) is true exactly when the confirmed state is
\* CRISIS_RISK, or it is PANIC or OVERWHELMED and more than 120 s have passed
\* since session_start; it is false for CALM, RISING and RECOVERY whatever
\* the elapsed time.
C11_ShouldEscalate ==
    [][StoreCall("should_escalate") =>
         LET session == sessions[call'.chat_id]
             elapsed == now - session.session_start
         IN  /\ call'.result =
                  (\/ session.current_state = CRISIS_RISK
                   \/ /\ session.current_state \in {PANIC, OVERWHELMED}
                      /\ elapsed > escalation_timeout_seconds)
             /\ session.current_state \in {CALM, RISING, RECOVERY}
                  => call'.result = FALSE]_vars

\* should_escalate answered true for a PANIC session 121 s after its start
C11_Witness ==
    /\ call.op = "should_escalate"
    /\ call.result = TRUE
    /\ call.chat_id \in DOMAIN sessions
    /\ sessions[call.chat_id].current_state = PANIC
    /\ now - sessions[call.chat_id].session_start = 121

----------------------------------------------------------------------------
\* the methods that begin with get_or_create_session
GetOrCreateOps ==
    {"get_or_create_session", "update_session", "should_check_in",
     "can_intervene", "get_session_duration"}

\* C17: after any call that runs get_or_create at time t, for any chat_id,
\* the store holds no session whose last_update is earlier than t minus
\* session_timeout_minutes, and no session whose last_update is at or after
\* that cutoff has been removed.
C17_EvictionSweep ==
    [][(served' = served + 1 /\ call'.op \in GetOrCreateOps) =>
         LET cutoff == now - session_timeout_minutes * 60
         IN  /\ \A c \in DOMAIN sessions' : sessions'[c].last_update >= cutoff
             /\ \A c \in DOMAIN sessions :
                   sessions[c].last_update >= cutoff => c \in DOMAIN sessions'
             /\ \A c \in DOMAIN sessions \ {call'.chat_id} :
                   sessions[c].last_update >= cutoff => sessions'[c] = sessions[c]]_vars

\* a get_or_create call has kept the session of another chat_id whose
\* last_update is exactly at the cutoff
C17_Witness ==
    /\ call.op = "get_or_create_session"
    /\ sessions[call.chat_id].last_update = now
    /\ \E c \in DOMAIN sessions \ {call.chat_id} :
          sessions[c].last_update = now - session_timeout_minutes * 60

\* C18: get_or_create sweeps before it looks up and refreshes last_update
\* after: an unexpired session is returned with every field but last_update
\* unchanged; an unknown chat_id, or one whose own session has expired, gets
\* a new session with current_state CALM, distress_prob 0,
\* intervention_count 0, both flags false and both timestamps now.
C18_GetOrCreate ==
    [][StoreCall("get_or_create_session") =>
         LET c == call'.chat_id
             cutoff == now - session_timeout_minutes * 60
             live == c \in DOMAIN sessions /\ sessions[c].last_update >= cutoff
         IN  /\ c \in DOMAIN sessions'
             /\ call'.result = sessions'[c]
             /\ sessions'[c].last_update = now
             /\ live => sessions'[c] = [sessions[c] EXCEPT !.last_update = now]
             /\ ~live =>
                  /\ sessions'[c].current_state = CALM
                  /\ sessions'[c].distress_prob = 0
                  /\ sessions'[c].intervention_count = 0
                  /\ sessions'[c].last_intervention = None
                  /\ sessions'[c].last_intervention_time = NoTime
                  /\ sessions'[c].escalation_offered = FALSE
                  /\ sessions'[c].stopped = FALSE
                  /\ sessions'[c].session_start = now]_vars

\* get_or_create has returned, later than its creation, a session that
\* carries an intervention and both flags
C18_Witness ==
    /\ call.op = "get_or_create_session"
    /\ sessions[call.chat_id].last_update = now
    /\ sessions[call.chat_id].session_start < now
    /\ sessions[call.chat_id].intervention_count = 1
    /\ sessions[call.chat_id].stopped

\* C19: update_session on an existing unexpired session changes each of
\* current_state, distress_prob, last_intervention (with its time and
\* count), escalation_offered and stopped only when the corresponding
\* argument is supplied, and then to the supplied value; every field that
\* is not supplied keeps its value, apart from last_update.
C19_PartialUpdate ==
    [][StoreCall("update_session") =>
         LET c == call'.chat_id
             a == call'.args
             cutoff == now - session_timeout_minutes * 60
         IN  (c \in DOMAIN sessions /\ sessions[c].last_update >= cutoff) =>
               LET old == sessions[c]
                   new == sessions'[c]
               IN  /\ new.current_state =
                        IF a.state # None THEN a.state ELSE old.current_state
                   /\ new.distress_prob =
                        IF a.distress_prob # NoProb THEN a.distress_prob
                        ELSE old.distress_prob
                   /\ a.intervention # None =>
                        /\ new.last_intervention = a.intervention
                        /\ new.last_intervention_time = now
                        /\ new.intervention_count = old.intervention_count + 1
                   /\ a.intervention = None =>
                        /\ new.last_intervention = old.last_intervention
                        /\ new.last_intervention_time = old.last_intervention_time
                        /\ new.intervention_count = old.intervention_count
                   /\ new.escalation_offered =
                        IF a.escalation_offered THEN TRUE ELSE old.escalation_offered
                   /\ new.stopped = IF a.stopped THEN TRUE ELSE old.stopped
                   /\ new.session_start = old.session_start
                   /\ new.last_update = now]_vars

\* an update that supplies only the state, on a session whose other fields
\* were all set by an earlier update
C19_Witness ==
    /\ call.op = "update_session"
    /\ call.args.state = RISING
    /\ call.args.distress_prob = NoProb
    /\ call.args.intervention = None
    /\ ~call.args.escalation_offered
    /\ ~call.args.stopped
    /\ sessions[call.chat_id].current_state = RISING
    /\ sessions[call.chat_id].distress_prob = 5100
    /\ sessions[call.chat_id].last_intervention = GROUNDING_54321
    /\ sessions[call.chat_id].intervention_count = 1
    /\ sessions[call.chat_id].escalation_offered
    /\ sessions[call.chat_id].stopped

\* C20: while a session exists its intervention_count never decreases; it
\* grows by exactly one on each update_session call that supplies an
\* intervention, which also stamps last_intervention_time, and no other
\* operation changes it.  A session created by such a call has count 1.
C20_InterventionCount ==
    [][\A c \in ChatIds :
          LET recorded == /\ StoreCall("update_session")
                          /\ call'.chat_id = c
                          /\ call'.args.intervention # None
          IN  /\ SameSession(c) =>
                 /\ sessions'[c].intervention_count >= sessions[c].intervention_count
                 /\ recorded =>
                      /\ sessions'[c].intervention_count
                            = sessions[c].intervention_count + 1
                      /\ sessions'[c].last_intervention_time = now
                 /\ ~recorded =>
                      sessions'[c].intervention_count = sessions[c].intervention_count
              /\ (c \in DOMAIN sessions' /\ ~SameSession(c)) =>
                    sessions'[c].intervention_count = IF recorded THEN 1 ELSE 0]_vars

\* two interventions have been recorded for one session, the second later
\* than the first
C20_Witness ==
    /\ call.op = "update_session"
    /\ call.args.intervention # None
    /\ sessions[call.chat_id].intervention_count = 2
    /\ sessions[call.chat_id].last_intervention_time = now
    /\ sessions[call.chat_id].session_start < now

----------------------------------------------------------------------------

\* C21: can_intervene(chat_id) returns true exactly when the session has no
\* recorded intervention time or at least intervention_cooldown_seconds have
\* passed since last_intervention_time; strictly inside the cooldown window
\* it returns false.
C21_CanIntervene ==
    [][StoreCall("can_intervene") =>
         LET session == sessions'[call'.chat_id]
             recorded == session.last_intervention_time # NoTime
             elapsed == now - session.last_intervention_time
         IN  /\ call'.result =
                  (~recorded \/ elapsed >= intervention_cooldown_seconds)
             /\ (recorded /\ elapsed < intervention_cooldown_seconds)
                  => call'.result = FALSE
             /\ call'.chat_id \notin DOMAIN sessions => call'.result = TRUE]_vars

\* can_intervene answered true exactly one cooldown after the intervention
C21_Witness ==
    /\ call.op = "can_intervene"
    /\ call.result = TRUE
    /\ sessions[call.chat_id].last_intervention_time # NoTime
    /\ now - sessions[call.chat_id].last_intervention_time
          = intervention_cooldown_seconds

QueryOps == {"can_intervene", "should_check_in", "get_session_duration"}

\* the session of chat_id has been updated within the TTL
Unexpired(c) ==
    /\ c \in DOMAIN sessions
    /\ sessions[c].last_update >= now - session_timeout_minutes * 60

\* C39: can_intervene, should_check_in and get_session_duration leave an
\* existing unexpired session as it is except for last_update, which they
\* set to the time of the call, so a session that is polled within the TTL
\* stays in the store; called for an unknown chat_id they create a default
\* session.
C39_QueriesRefreshOnly ==
    [][(served' = served + 1 /\ call'.op \in QueryOps) =>
          LET c == call'.chat_id
          IN  /\ Unexpired(c) =>
                    /\ c \in DOMAIN sessions'
                    /\ sessions'[c] = [sessions[c] EXCEPT !.last_update = now]
              /\ c \notin DOMAIN sessions =>
                    /\ c \in DOMAIN sessions'
                    /\ sessions'[c] = NewSession(now)
              /\ \A k \in ChatIds \ {c} :
                    Unexpired(k) =>
                       (k \in DOMAIN sessions' /\ sessions'[k] = sessions[k])]_vars

\* a query at a later time found a session with a recorded intervention and
\* left it with nothing but last_update changed
C39_Witness ==
    /\ call.op \in QueryOps
    /\ sessions[call.chat_id].session_start < now
    /\ sessions[call.chat_id].last_update = now
    /\ sessions[call.chat_id].intervention_count = 1

----------------------------------------------------------------------------
(* Properties of the intervention sequencer (SpecSeq) *)

\* the script a multi-step state steps through and the prompt that closes it
ScriptOf(state) ==
    IF INTERVENTIONS[state].type = GROUNDING_54321
    THEN GROUNDING_SEQUENCE
    ELSE BREATHING_CUES[INTERVENTIONS[state].type]

ClosingOf(state) ==
    IF INTERVENTIONS[state].type = GROUNDING_54321
    THEN "You're here. You're present. Take a slow breath."
    ELSE "You're doing well. One more breath."

\* the cursor get_intervention reads for (chat_id, state)
CursorOf(g, b, chat_id, state) ==
    IF INTERVENTIONS[state].type = GROUNDING_54321
    THEN StepOf(g, chat_id)
    ELSE StepOf(b, chat_id)

\* C12: for one (chat_id, sequence kind) and a script of length N, starting
\* from a new cursor, the k-th get_intervention call returns step
\* (k-1) mod (N+1) of the script, the closing prompt standing for step N,
\* and the call that returns the closing prompt leaves the cursor at 0.
C12_StepCycle ==
    (call.op = "get_intervention" /\ call.state \in MultiStepStates) =>
        LET script == ScriptOf(call.state)
            n == Len(script)
            i == (served[<<call.chat_id, call.state>>] - 1) % (n + 1)
        IN  /\ call.result.prompt =
                 IF i < n THEN script[i + 1] ELSE ClosingOf(call.state)
            /\ i = n => CursorOf(grounding_step, breathing_step,
                                 call.chat_id, call.state) = 0

\* the cycle of the grounding script alone, whose cursor no other kind uses
C12_GroundingOnly ==
    (call.op = "get_intervention" /\ call.state = OVERWHELMED) => C12_StepCycle

\* C13: a get_intervention call for one (chat_id, sequence kind) leaves the
\* cursor of every other sequence kind of that chat_id and every cursor of
\* the other chat_ids unchanged, so the first call for a (chat_id, kind)
\* returns step 0 of its script.
C13_CursorsPerKind ==
    [][call'.op = "get_intervention" =>
         /\ \A c \in ChatIds, s \in MultiStepStates :
               <<c, s>> # <<call'.chat_id, call'.state>> =>
                  CursorOf(grounding_step', breathing_step', c, s)
                     = CursorOf(grounding_step, breathing_step, c, s)
         /\ \A s \in MultiStepStates :
               (call'.state = s /\ served[<<call'.chat_id, s>>] = 0
                   /\ served'[<<call'.chat_id, s>>] = 1)
                  => call'.result.prompt = ScriptOf(s)[1]]_vars

\* C15: every sequence cursor is an integer between 0 and the length of the
\* script it indexes, after any sequence of get_intervention and reset_steps
\* calls in any mix of states and chat_ids.
C15_CursorInRange ==
    /\ \A c \in DOMAIN grounding_step :
          grounding_step[c] \in 0..Len(GROUNDING_SEQUENCE)
    /\ \A c \in DOMAIN breathing_step :
          \A k \in DOMAIN BREATHING_CUES :
             breathing_step[c] \in 0..Len(BREATHING_CUES[k])

\* the grounding cursor of a chat_id has run to the end of the script and
\* the call after that has returned the closing prompt and reset it
C15_Witness ==
    /\ call.op = "get_intervention"
    /\ call.state = OVERWHELMED
    /\ served[<<call.chat_id, OVERWHELMED>>] = Len(GROUNDING_SEQUENCE) + 1
    /\ call.result.prompt = ClosingOf(OVERWHELMED)
    /\ grounding_step[call.chat_id] = 0


\* C29: every call of a multi-step script, the call that returns the
\* closing prompt included, reports the base duration integer-divided by the
\* number of steps: 12 for OVERWHELMED, 10 for RISING and 20 for PANIC; the
\* first OVERWHELMED call for a chat_id without a cursor returns step 0 with
\* duration 12.
C29_StepDurations ==
    [][(call'.op = "get_intervention" /\ served' # served) =>
          /\ call'.state = OVERWHELMED => call'.result.duration = 12
          /\ call'.state = RISING => call'.result.duration = 10
          /\ call'.state = PANIC => call'.result.duration = 20
          /\ (call'.state = OVERWHELMED
                /\ call'.chat_id \notin DOMAIN grounding_step) =>
                /\ call'.result.prompt = GROUNDING_SEQUENCE[1]
                /\ call'.result.duration = 12
                /\ grounding_step'[call'.chat_id] = 1]_vars

\* the call that returns the closing prompt of the grounding script has
\* reported 12 seconds
C29_Witness ==
    /\ call.op = "get_intervention"
    /\ call.state = OVERWHELMED
    /\ served[<<call.chat_id, OVERWHELMED>>] = Len(GROUNDING_SEQUENCE) + 1
    /\ StepOf(grounding_step, call.chat_id) = 0
    /\ call.result.duration = 12

\* C30: get_intervention for CALM, RECOVERY and CRISIS_RISK returns the same
\* triple with duration 0 on every call, whatever the chat_id and the calls
\* before it, and leaves every cursor as it was.
C30_SingleShot ==
    [][(call'.op = "get_intervention"
          /\ call'.state \in {CALM, RECOVERY, CRISIS_RISK}) =>
          /\ call'.result =
                (CASE call'.state = CALM ->
                        [type |-> CHECK_IN, duration |-> 0,
                         prompt |-> "How are you feeling right now?"]
                   [] call'.state = RECOVERY ->
                        [type |-> REINFORCEMENT, duration |-> 0,
                         prompt |-> "Your body is settling. Take two slow breaths."]
                   [] call'.state = CRISIS_RISK ->
                        [type |-> ESCALATION, duration |-> 0,
                         prompt |-> "I hear you're struggling. Would you like me to contact your support person?"])
          /\ grounding_step' = grounding_step
          /\ breathing_step' = breathing_step]_vars

\* a single-shot call made for a chat_id whose cursors are both under way
C30_Witness ==
    /\ call.op = "get_intervention"
    /\ call.state \in {RECOVERY, CRISIS_RISK}
    /\ StepOf(grounding_step, call.chat_id) = 2
    /\ StepOf(breathing_step, call.chat_id) = 1

----------------------------------------------------------------------------
(* Properties of the request handlers (Spec), continued *)

\* C14: when a conversation is stopped, by a stop message or by the stop
\* endpoint, its sequence cursors are reset, so that the next multi-step
\* intervention of that chat_id starts at step 0 of its script.
C14_StopResetsCursors ==
    ((call.op = "infer" /\ call.is_stop) \/ call.op = "stop") =>
        /\ StepOf(grounding_step, call.chat_id) = 0
        /\ StepOf(breathing_step, call.chat_id) = 0

\* C16: over the infer calls of one session, an intervention is recorded
\* (intervention_count grows) only when can_intervene is true, that is, at
\* least intervention_cooldown_seconds after the previous recorded
\* intervention.
C16_CooldownGatesInterventions ==
    [][\A c \in ChatIds :
          (/\ SameSession(c)
           /\ sessions'[c].intervention_count > sessions[c].intervention_count)
             => CanIntervene(sessions, c, now)]_vars

\* C25: an infer request whose message is empty after sanitization is
\* rejected with HTTP 400, never with an internal error, and the rejection
\* leaves the session store unchanged.
C25_EmptyMessageRejected ==
    [][(served' = served + 1 /\ call'.op = "infer_empty"
          /\ call'.args = EmptyText) =>
         /\ response'.kind = "error"
         /\ response'.status_code = 400
         /\ sessions' = sessions]_vars

\* a step in which a handler asked the coaching generator for text: the
\* intervention branch of infer or the intervention branch of a "worse"
\* check-in
AskedGenerator ==
    /\ served' = served + 1
    /\ \/ call'.op = "infer" /\ response'.kind = "coaching"
       \/ call'.op = WORSE /\ response'.buttons = CheckInButtons

\* C26: on every infer and check-in path that asks the coaching generator
\* for text, when the generator fails or the safety filter rejects its text
\* the request still succeeds and the reply text is the prompt that
\* get_intervention has just returned for the state.
C26_FallbackIsSequencerPrompt ==
    [][(AskedGenerator /\ call'.args \in {"failed", "medical"}) =>
         /\ response'.kind # "error"
         /\ response'.reply_text =
               GetIntervention(response'.state, call'.chat_id,
                               grounding_step, breathing_step).prompt]_vars

----------------------------------------------------------------------------
(* Properties of the detector (SpecDetect) *)

\* C23: for every combination of match counts the classifier probability
\* follows the priority order: with a recovery match it is
\* max(0, 0.2 - 0.1 * recovery), even when there is a crisis match too;
\* else with a crisis match it is 1.0; else it is
\* min(0.95, (0.85 * panic + 0.80 * overwhelmed + 0.40 * rising) / 2).
\* is_crisis is true exactly when the crisis count is positive.
C23_PriorityOrder ==
    call.op = "detect" =>
        LET m == call.match_counts
            weighted == 8500 * m.panic + 8000 * m.overwhelmed + 4000 * m.rising
        IN  /\ m.recovery > 0 =>
                 call.text_prob = Max(0, 2000 - 1000 * m.recovery)
            /\ (m.recovery = 0 /\ m.crisis > 0) => call.text_prob = Scale
            /\ (m.recovery = 0 /\ m.crisis = 0) =>
                 call.text_prob = Min(9500, weighted \div 2)
            /\ call.is_crisis = (m.crisis > 0)

\* a message with one recovery match and a crisis match was classified
C23_Witness ==
    /\ call.op = "detect"
    /\ call.match_counts.recovery = 1
    /\ call.match_counts.crisis > 0
    /\ call.text_prob = 1000
    /\ call.is_crisis

----------------------------------------------------------------------------
(* Properties of the handlers as coroutines (SpecAsync)                    *)

\* the requests for chat_id, started so far, that satisfy P
RequestsOf(chat_id, P(_)) ==
    {i \in DOMAIN call : call[i].chat_id = chat_id /\ P(call[i])}

HasRecorded(r) == r.recorded
MovedGrounding(r) == r.seq = "grounding"
MovedBreathing(r) == r.seq = "breathing"
SetStopped(r) == r.set_stopped
SetEscalation(r) == r.set_escalation

\* C27: whatever the interleaving of the requests for one chat_id at their
\* awaits, no update is lost: intervention_count is the number of
\* interventions recorded, each cursor is the number of sequencer calls
\* made on it (counted round its script), and a flag set by a request is
\* still set.
C27_NoLostUpdate ==
    \A c \in ChatIds :
        /\ Cardinality(RequestsOf(c, HasRecorded)) =
              (IF c \in DOMAIN sessions THEN sessions[c].intervention_count ELSE 0)
        /\ StepOf(grounding_step, c) =
              Cardinality(RequestsOf(c, MovedGrounding))
                 % (Len(GROUNDING_SEQUENCE) + 1)
        /\ StepOf(breathing_step, c) =
              Cardinality(RequestsOf(c, MovedBreathing))
                 % (Len(BREATHING_CUES[PACED_BREATHING]) + 1)
        /\ RequestsOf(c, SetStopped) # {} =>
              c \in DOMAIN sessions /\ sessions[c].stopped
        /\ RequestsOf(c, SetEscalation) # {} =>
              c \in DOMAIN sessions /\ sessions[c].escalation_offered

\* two requests for one chat_id overlapped, both recorded an intervention
\* and both have returned
C27_Witness ==
    /\ Len(call) >= 2
    /\ call[1].chat_id = call[2].chat_id
    /\ call[2].concurrent
    /\ call[1].pc = "done" /\ call[2].pc = "done"
    /\ call[1].recorded /\ call[2].recorded
    /\ sessions[call[1].chat_id].intervention_count = 2

----------------------------------------------------------------------------
(* Properties of the request handlers (Spec), stop and check-in *)

C32_StoppedSessionIsQuiet ==
    [][\A c \in ChatIds :
          (/\ SameSession(c)
           /\ sessions[c].stopped
           /\ served' = served + 1
           /\ call'.chat_id = c
           /\ call'.op \in {"infer", BETTER, SAME, WORSE}) =>
              /\ sessions'[c].intervention_count = sessions[c].intervention_count
              /\ sessions'[c].last_intervention = sessions[c].last_intervention
              /\ StepOf(grounding_step', c) = StepOf(grounding_step, c)
              /\ StepOf(breathing_step', c) = StepOf(breathing_step, c)
              /\ sessions'[c].current_state # sessions[c].current_state
                    => sessions'[c].current_state = CALM]_vars

C35_CheckInSetsState ==
    [][(served' = served + 1 /\ call'.op \in CheckInResponse) =>
          LET c == call'.chat_id
              before == GetOrCreateSession(sessions, c, now)[c]
              after == sessions'[c].current_state
          IN  /\ call'.op = BETTER => after = RECOVERY
              /\ call'.op = SAME =>
                    after = (IF before.last_intervention
                                  \in {None, FOUR_SEVEN_EIGHT}
                             THEN OVERWHELMED ELSE PANIC)
              /\ call'.op = WORSE => after = before.current_state
              /\ response'.state = after]_vars

\* "better" took a session out of CRISIS_RISK into RECOVERY
C35_Witness ==
    /\ call.op = BETTER
    /\ call.prior_state = CRISIS_RISK
    /\ sessions[call.chat_id].current_state = RECOVERY

\* C36: a check-in call leaves the session's distress_prob,
\* last_intervention, intervention_count and stopped flag and the state
\* history as they were; of the cursors it can move only the one the "worse"
\* response advances before the escalation timeout, and that call records
\* no intervention.
C36_CheckInFrame ==
    [][(served' = served + 1 /\ call'.op \in CheckInResponse) =>
          LET c == call'.chat_id
              before == GetOrCreateSession(sessions, c, now)[c]
              after == sessions'[c]
              moved == \/ grounding_step' # grounding_step
                       \/ breathing_step' # breathing_step
          IN  /\ after.distress_prob = before.distress_prob
              /\ after.last_intervention = before.last_intervention
              /\ after.last_intervention_time = before.last_intervention_time
              /\ after.intervention_count = before.intervention_count
              /\ after.stopped = before.stopped
              /\ state_history' = state_history
              /\ moved =>
                    /\ call'.op = WORSE
                    /\ response'.buttons = CheckInButtons
                    /\ GetSessionDuration(GetOrCreateSession(sessions, c, now),
                                          c, now) < escalation_timeout_seconds
                    /\ \A k \in ChatIds \ {c} :
                          /\ StepOf(grounding_step', k) = StepOf(grounding_step, k)
                          /\ StepOf(breathing_step', k) = StepOf(breathing_step, k)]_vars

\* a "worse" response moved the grounding cursor of a session that has no
\* intervention recorded
C36_Witness ==
    /\ call.op = WORSE
    /\ call.prior_state = OVERWHELMED
    /\ StepOf(grounding_step, call.chat_id) = 1
    /\ sessions[call.chat_id].intervention_count = 0
    /\ sessions[call.chat_id].last_intervention = None

\* the escalation_offered flag of the session chat_id has before a step; a
\* session that the step creates (for a new chat_id or after eviction)
\* starts without the flag
OfferedBefore(c) == SameSession(c) /\ sessions[c].escalation_offered

\* the step returned the escalation offer for chat_id
OfferReturned(c) ==
    /\ served' = served + 1
    /\ call'.chat_id = c
    /\ response'.kind = "escalation_offer"
    /\ response'.reply_text = GetEscalationPrompt
    /\ response'.buttons = EscalationButtons

\* C37: a session's escalation_offered flag is true exactly when an
\* escalation offer has been returned for that session (it is false in a new
\* session and becomes true in the step that returns the offer, and in no
\* other); the infer call that returns the offer records no intervention
\* and moves no cursor.
C37_FlagIffOffered ==
    [][\A c \in ChatIds :
          /\ c \in DOMAIN sessions' =>
                (sessions'[c].escalation_offered
                    <=> (OfferedBefore(c) \/ OfferReturned(c)))
          /\ (OfferReturned(c) /\ call'.op = "infer") =>
                /\ sessions'[c].intervention_count =
                      GetOrCreateSession(sessions, c, now)[c].intervention_count
                /\ sessions'[c].last_intervention =
                      GetOrCreateSession(sessions, c, now)[c].last_intervention
                /\ grounding_step' = grounding_step
                /\ breathing_step' = breathing_step]_vars

\* an infer call returned the offer to a session that has one intervention
\* recorded and its breathing cursor at 1
C37_Witness ==
    /\ call.op = "infer"
    /\ response.kind = "escalation_offer"
    /\ sessions[call.chat_id].escalation_offered
    /\ sessions[call.chat_id].intervention_count = 1
    /\ StepOf(breathing_step, call.chat_id) = 1

\* C38: the history of a chat_id goes with its session: once the session is
\* stopped or evicted the history is discarded, so the first determine_state
\* call of a new session for the chat_id starts from an empty history and
\* cannot confirm a change with proposals made in the earlier session.
C38_HistoryTiedToSession ==
    [][\A c \in ChatIds :
          (served' = served + 1 /\ call'.chat_id = c /\ c \in DOMAIN sessions') =>
             /\ (~SameSession(c) /\ call'.op = "infer" /\ call'.proposed # None)
                   => HistoryOf(state_history', c) = <<call'.proposed>>
             /\ (~SameSession(c) /\ call'.proposed = None)
                   => HistoryOf(state_history', c) = <<>>
             /\ (sessions'[c].stopped /\ call'.op \in {"infer", "stop"}
                   /\ call'.proposed = None)
                   => HistoryOf(state_history', c) = <<>>]_vars

----------------------------------------------------------------------------
(* Properties of the handlers as coroutines (SpecAsync), continued *)

\* the infer requests for chat_id that took the escalation branch
OffersOf(chat_id) ==
    {i \in DOMAIN call : /\ call[i].chat_id = chat_id
                         /\ call[i].op = "infer"
                         /\ call[i].set_escalation}

\* C40: of the infer requests for one chat_id that are in flight together
\* and interleave at their awaits, at most one returns the escalation
\* offer.
C40_OneOfferPerSession ==
    \A c \in ChatIds : Cardinality(OffersOf(c)) <= 1

\* two crisis messages for one chat_id overlapped: the first returned the
\* offer, the second, started while the first was suspended, went on to an
\* intervention, and both have returned
C40_Witness ==
    /\ Len(call) >= 2
    /\ call[1].chat_id = call[2].chat_id
    /\ call[1].op = "infer" /\ call[2].op = "infer"
    /\ call[1].set_escalation
    /\ call[2].concurrent
    /\ call[2].new_state = CRISIS_RISK
    /\ ~call[2].set_escalation
    /\ call[2].recorded
    /\ call[1].pc = "done" /\ call[2].pc = "done"

====
